---- MODULE Spec2Model ----
(***************************************************************************)
(* The STT WebSocket server of packages/stt-service (server.py,            *)
(* protocol.py, transcriber.py, config.py): connection admission under an  *)
(* asyncio.Semaphore, the per-session audio buffer, and the handling of    *)
(* client frames.  One handler coroutine runs per connection; the event    *)
(* loop is cooperative, so each action below is the code between two       *)
(* suspension points of one handler (or one event of a client).            *)
(***************************************************************************)
EXTENDS Integers, Sequences, FiniteSets, TLC

(* ----------------------------- bounds ---------------------------------- *)
\* connections that arrive during one run of the server
NumConns == 2
\* largest settings.server.max_connections tried
MaxPermits == 1
\* frames the handlers take from their websockets during one run
MaxFrames == 3
\* frames the handler of one lone session takes during one run
MaxSessionFrames == 5

Conns == 1..NumConns

(* ------------------------- program constants --------------------------- *)
\* STTSession.MAX_BUFFER_SAMPLES
MAX_BUFFER_SAMPLES == 16000 * 30
\* Transcriber.MAX_AUDIO_SECONDS
MAX_AUDIO_SECONDS == 30
\* STTSession.__init__: self.sample_rate = 16000
DEFAULT_SAMPLE_RATE == 16000

(* --------------------------- client frames ----------------------------- *)
\* byte lengths of the binary frames clients send (10 s and 20 s of 16 kHz
\* 16-bit audio, and a frame of odd length)
BinSizes == {320000, 640000, 3}
\* sample_rate values clients put in a config message
SampleRates == {0, 8000, 16000}
\* texts the model returns from recognize()
Texts == {"", "hello"}

BinaryFrames == {[kind |-> "bin", nbytes |-> b, type |-> "", sample_rate |-> 0] : b \in BinSizes}
\* text frames: a JSON object with a type (and sample_rate for config), one
\* with an unknown type ("bogus"), one without a type ("notype"), or a text
\* that is not JSON at all ("notjson")
TextFrames ==
    {[kind |-> "text", nbytes |-> 0, type |-> "config", sample_rate |-> r] : r \in SampleRates}
    \cup {[kind |-> "text", nbytes |-> 0, type |-> t, sample_rate |-> 0] :
             t \in {"end", "keepalive", "bogus", "notype", "notjson"}}
Frames == BinaryFrames \cup TextFrames
ConfigFrame(r) == [kind |-> "text", nbytes |-> 0, type |-> "config", sample_rate |-> r]
EndFrame == [kind |-> "text", nbytes |-> 0, type |-> "end", sample_rate |-> 0]

(* ------------------------- server messages ----------------------------- *)
ReadyMessage == [type |-> "ready", code |-> "", text |-> "", confidence |-> 0]
FinalMessage(t, conf) == [type |-> "final", code |-> "", text |-> t, confidence |-> conf]
ErrorMessage(c) == [type |-> "error", code |-> c, text |-> "", confidence |-> 0]

(* ----------------------------- state ----------------------------------- *)
VARIABLES
    max_connections,   \* settings.server.max_connections
    reject_when_full,  \* settings.server.reject_when_full
    sem_value,         \* _connection_semaphore._value
    sem_waiters,       \* _connection_semaphore._waiters, in order
    sessions,          \* STTServer.sessions; a session is named by its connection
                       \* (the ids str(uuid4())[:8] are taken to be distinct)
    session,           \* the STTSession of each connection
    pc,                \* where each handler is: "idle" (not arrived), "waiting",
                       \* "granted", "loop", "transcribing" or "done"
    job,               \* the audio and sample_rate given to transcribe
    outbox,            \* frames the server has sent to the client
    clientOpen,        \* the connection is open (a send on a closed one raises)
    shutdown,          \* _shutdown_event is set
    waited,            \* live connections whose acquire() had to wait
    nframes,           \* frames the handlers have taken from their websockets
    utterance          \* per connection, the sample counts of the binary frames
                       \* taken without an error reply since admission or since
                       \* the last "end" (what the client knows to be accepted)

serverVars == <<max_connections, reject_when_full, sem_value, sem_waiters, sessions,
                session, pc, job, outbox, clientOpen, shutdown, waited, nframes,
                utterance>>

\* a client control message on its way through JSON (protocol.py)
VARIABLES
    sent_msg,          \* the message a client encodes
    wire,              \* the JSON text: the members of the object, in order
    parsed_msg,        \* what parse_client_message made of the text
    proto_pc           \* "idle" (no message under way), "new", "encoded" or "parsed"

protoVars == <<sent_msg, wire, parsed_msg, proto_pc>>

\* the push-to-talk controller of a client (ptt.py) and the recording
\* callbacks the client gives it (client.py, run_ptt_mode)
VARIABLES
    ptt,               \* the PTTController: state, _auto_submitted,
                       \* _duration_check_task ("none", "sleeping" or "ended"),
                       \* _processing_start_time (0, or 1 for a time > 0)
    start_tasks,       \* the start_recording tasks made by on_start, in order:
                       \* "new" (not yet run), "pending" (in ensure_connected)
                       \* or "done"
    stop_tasks,        \* the wait_and_stop tasks not yet ended, in order: each
                       \* "new" (not yet run) or "waiting" for the
                       \* start_recording task it names, and the number of the
                       \* start_recording task of its own cycle
    calls,             \* the calls of on_start_recording ("start") and
                       \* on_stop_recording ("stop") so far
    events,            \* the hotkey events the listener has delivered so far
    daemon_mode,       \* args.daemon
    mode               \* run_ptt_mode: tray.state ("none" without a tray),
                       \* client.websocket is set, stream ("none" or "open"),
                       \* the length of audio_chunks, the configs sent so far

pttVars == <<ptt, start_tasks, stop_tasks, calls, events, daemon_mode, mode>>

\* the hotkey listeners of a client (ptt.py)
VARIABLES
    listener,          \* the EvdevHotkeyListener: _pressed_keys_by_device,
                       \* the paths of _device_tasks, _hotkey_active, _running
    plugged,           \* the keyboards list_devices() shows
    reading,           \* the keyboards whose _read_device task has not ended
    callbacks,         \* the calls of on_activate ("activate"), on_deactivate
                       \* ("deactivate") and on_device_count_changed (the
                       \* count) so far
    nkeys,             \* events the devices, or the terminal, have delivered
    wired,             \* the callbacks are those of run_ptt_mode and its
                       \* controller
    keyboards,         \* the keyboards there are, plugged or not
    term               \* the TerminalHotkeyListener: where start() is ("idle",
                       \* "waiting" for a key, key "held", "ended", or
                       \* "raised": ended by an exception), and _running

listenerVars == <<listener, plugged, reading, callbacks, nkeys, wired, keyboards, term>>

\* a client in one-shot mode (client.py)
VARIABLES
    shot               \* run_client: where it is ("start", "recording",
                       \* "flushing" after Enter, "waiting" for the reply,
                       \* "done"), the PTTClient's fields, the chunks
                       \* queued and sent, and what came of it

\* a client as it starts (client.py)
VARIABLES
    takeover           \* the takeover of old instances: where it is ("idle",
                       \* "sigterm", "probe", "started"), the processes
                       \* found, those still to signal, those alive, those
                       \* of another user, and the os.kill calls so far

\* a PTT client's exchange with the server on its connection (client.py)
VARIABLES
    talk               \* where the client is ("start", "idle", "recording",
                       \* "waiting" for the reply), the frames it has sent,
                       \* how many messages it has read, and its recordings

clientVars == <<shot, takeover, talk>>

\* the variables of the other programs, which the server leaves alone
nonServerVars == <<protoVars, pttVars, listenerVars, clientVars>>

\* the variables a one-shot client leaves alone
nonShotVars == <<serverVars, protoVars, pttVars, listenerVars, takeover, talk>>

\* the variables the takeover leaves alone
nonTakeoverVars == <<serverVars, protoVars, pttVars, listenerVars, shot, talk>>

\* the variables the client's exchange leaves alone
nonTalkVars == <<serverVars, protoVars, pttVars, listenerVars, shot, takeover>>

\* the variables the controller and its callbacks leave alone
nonPttVars == <<serverVars, protoVars, listenerVars, clientVars>>

vars == <<serverVars, nonServerVars>>

\* STTSession.__init__
NewSession == [configured |-> FALSE, sample_rate |-> DEFAULT_SAMPLE_RATE,
               audio_chunks |-> <<>>, total_samples |-> 0]
NoJob == [audio |-> <<>>, sample_rate |-> 0]

ServerInit ==
    /\ max_connections \in 1..MaxPermits
    /\ reject_when_full \in BOOLEAN
    /\ sem_value = max_connections
    /\ sem_waiters = <<>>
    /\ sessions = {}
    /\ session = [c \in Conns |-> NewSession]
    /\ pc = [c \in Conns |-> "idle"]
    /\ job = [c \in Conns |-> NoJob]
    /\ outbox = [c \in Conns |-> <<>>]
    /\ clientOpen = [c \in Conns |-> FALSE]
    /\ shutdown = FALSE
    /\ waited = {}
    /\ nframes = 0
    /\ utterance = [c \in Conns |-> <<>>]

\* no client message is under way
NoMessage == [type |-> "none"]
ProtocolIdle ==
    /\ sent_msg = NoMessage
    /\ wire = <<>>
    /\ parsed_msg = [ok |-> FALSE, msg |-> NoMessage]
    /\ proto_pc = "idle"

\* PTTController.__init__, and run_ptt_mode before ptt.run()
NewController == [state |-> "IDLE", auto_submitted |-> FALSE,
                  duration_check_task |-> "none", processing_start_time |-> 0]
ControllerInit ==
    /\ ptt = NewController
    /\ start_tasks = <<>>
    /\ stop_tasks = <<>>
    /\ calls = <<>>
    /\ events = <<>>

\* run_ptt_mode before ptt.run(): the tray (TrayIndicator.__init__, or none),
\* client = None, stream = None, audio_chunks = [].  websocket: client and
\* client.websocket; ready: "ready" was received on that websocket; open:
\* its connection is open.  stream_cycle: the recording whose InputStream
\* the variable stream holds; open_streams: the recordings whose
\* InputStream is started and not closed; sent_chunks: how many of the
\* chunks in the accumulator a stop_recording has sent to the server.
NewMode(t) == [tray |-> t, websocket |-> FALSE, ready |-> FALSE, open |-> FALSE,
               stream |-> "none", stream_cycle |-> 0, open_streams |-> {},
               audio_chunks |-> 0, sent_chunks |-> 0, configs |-> 0]

\* EvdevHotkeyListener.__init__
NewListener == [pressed_keys_by_device |-> <<>>, device_tasks |-> {},
                hotkey_active |-> FALSE, running |-> FALSE]

\* TerminalHotkeyListener.__init__
NewTerminal == [pc |-> "idle", running |-> FALSE, old_settings |-> FALSE, raw |-> FALSE]

\* the listeners before start(), with no keyboard there
ListenerIdle ==
    /\ listener = NewListener
    /\ plugged = {}
    /\ reading = {}
    /\ callbacks = <<>>
    /\ nkeys = 0
    /\ wired = FALSE
    /\ keyboards = {}
    /\ term = NewTerminal

Last(s) == s[Len(s)]

\* PTTClient.__init__, and run_client before its first attempt
NewShot == [pc |-> "start", attempt |-> 0, websocket |-> FALSE, ready |-> FALSE,
            open |-> FALSE, recording |-> FALSE, stop_event |-> FALSE,
            server_error |-> FALSE, stream_task |-> "none", queue |-> 0,
            sent |-> 0, end_sent |-> FALSE, reply |-> "none", text |-> "None",
            output |-> <<>>, exit |-> -1]

\* the client before it looks for old instances
NewTakeover == [pc |-> "idle", found |-> {}, todo |-> {}, alive |-> {}, denied |-> {},
                signals |-> <<>>]

\* run_ptt_mode before its client has connected
NewTalk == [pc |-> "start", sent |-> <<>>, nread |-> 0, cycles |-> 0]

\* no client has run yet
ClientIdle == shot = NewShot /\ takeover = NewTakeover /\ talk = NewTalk

\* the server as it starts
Init ==
    /\ ServerInit /\ ProtocolIdle /\ ControllerInit /\ ClientIdle /\ ListenerIdle
    /\ daemon_mode = FALSE /\ mode = NewMode("none")

(* ----------------------- asyncio.Semaphore ----------------------------- *)
\* _connection_semaphore, as asyncio.Semaphore of CPython 3.11 and later:
\* release() hands the permit to the first waiter whose future is pending.
\* A waiter whose future is still pending has pc "waiting"; one whose
\* future has been resolved but which has not run yet has pc "granted".
\* Both are in sem_waiters until the waiter itself runs again.

Remove(w, c) == SelectSeq(w, LAMBDA x : x # c)

\* locked() that looks at the waiters only, not at the counter
locked_ignoring_value == sem_waiters # <<>>

\* Semaphore.locked()
locked == sem_value = 0 \/ sem_waiters # <<>>

\* _wake_up_next() that resolves no waiter's future
wake_up_next_nobody(v, w, p) == [value |-> v, pc |-> p]

\* Semaphore._wake_up_next(): hand a permit to the first pending waiter
wake_up_next(v, w, p) ==
    LET pend == {i \in 1..Len(w) : p[w[i]] = "waiting"} IN
    IF pend = {} THEN [value |-> v, pc |-> p]
    ELSE LET i == CHOOSE i \in pend : \A j \in pend : i <= j
         IN  [value |-> v - 1, pc |-> [p EXCEPT ![w[i]] = "granted"]]

\* Semaphore.release()
release(v, w, p) == wake_up_next(v + 1, w, p)

(* ---------------------------- STTSession ------------------------------- *)
RECURSIVE SumSeq(_)
SumSeq(s) == IF s = <<>> THEN 0 ELSE Head(s) + SumSeq(Tail(s))

\* add_chunk that keeps the part of the frame that still fits
add_chunk_truncating(s, n) ==
    IF s.total_samples + n > MAX_BUFFER_SAMPLES
    THEN [ok |-> FALSE,
          s |-> [s EXCEPT !.audio_chunks = Append(@, MAX_BUFFER_SAMPLES - s.total_samples),
                          !.total_samples = MAX_BUFFER_SAMPLES]]
    ELSE [ok |-> TRUE,
          s |-> [s EXCEPT !.audio_chunks = Append(@, n),
                          !.total_samples = @ + n]]

\* STTSession.add_chunk, on a frame of n samples
add_chunk(s, n) ==
    IF s.total_samples + n > MAX_BUFFER_SAMPLES
    THEN [ok |-> FALSE, s |-> s]
    ELSE [ok |-> TRUE,
          s |-> [s EXCEPT !.audio_chunks = Append(@, n),
                          !.total_samples = @ + n]]

\* STTSession.get_audio: the chunks in order (None when there are none)
get_audio(s) == s.audio_chunks

\* clear that resets the sample count and keeps the chunks
clear_keeps_chunks(s) == [s EXCEPT !.total_samples = 0]

\* STTSession.clear
clear(s) == [s EXCEPT !.audio_chunks = <<>>, !.total_samples = 0]

(* ----------------------------- protocol -------------------------------- *)
\* parse_client_message: json.loads fails on "notjson", an unknown or a
\* missing type raises ValueError
parse_client_message(f) ==
    IF f.type \in {"config", "end", "keepalive"}
    THEN [ok |-> TRUE, type |-> f.type, sample_rate |-> f.sample_rate]
    ELSE [ok |-> FALSE, type |-> "", sample_rate |-> 0]

(* ---------------------------- transcriber ------------------------------ *)
\* Transcriber.transcribe: duration_seconds > MAX_AUDIO_SECONDS
TooLong(n, sr) == n > MAX_AUDIO_SECONDS * sr

\* what Transcriber.transcribe may do with a job: raise, or return a text
transcribe(j) ==
    IF j.sample_rate = 0 \/ TooLong(SumSeq(j.audio), j.sample_rate)
    THEN {[ok |-> FALSE, text |-> ""]}
    ELSE {[ok |-> FALSE, text |-> ""]} \cup {[ok |-> TRUE, text |-> t] : t \in Texts}

(* ------------------------ message handling ----------------------------- *)
\* The result of handling one frame on session s: the session afterwards,
\* the frames to send, and how the handler goes on: "ok" (next frame),
\* "raise" (an exception leaves _handle_message) or "transcribe" (the
\* handler awaits the worker running job).
Result(s, send, outcome, j) == [s |-> s, send |-> send, outcome |-> outcome, job |-> j]

\* _process_audio that returns on an empty buffer without sending "final"
process_audio_silent(s) ==
    LET audio == get_audio(s)
        s1    == clear(s)
    IN  IF audio = <<>> \/ SumSeq(audio) = 0
        THEN Result(s1, <<>>, "ok", NoJob)
        ELSE IF s1.sample_rate = 0
        THEN Result(s1, <<>>, "raise", NoJob)
        ELSE Result(s1, <<>>, "transcribe",
                    [audio |-> audio, sample_rate |-> s1.sample_rate])

\* _process_audio without the check for an empty buffer: whatever
\* get_audio returns is given to the worker
process_audio_unchecked(s) ==
    LET audio == get_audio(s)
        s1    == clear(s)
    IN  IF s1.sample_rate = 0
        THEN Result(s1, <<>>, "raise", NoJob)
        ELSE Result(s1, <<>>, "transcribe",
                    [audio |-> audio, sample_rate |-> s1.sample_rate])

\* STTServer._process_audio up to the call of run_in_executor
process_audio(s) ==
    LET audio == get_audio(s)
        s1    == clear(s)
    IN  IF audio = <<>> \/ SumSeq(audio) = 0
        THEN Result(s1, <<FinalMessage("", 0)>>, "ok", NoJob)
        ELSE IF s1.sample_rate = 0
        THEN Result(s1, <<>>, "raise", NoJob)
        ELSE Result(s1, <<>>, "transcribe",
                    [audio |-> audio, sample_rate |-> s1.sample_rate])

\* the binary branch without the check of session.configured
handle_binary_unchecked(s, f) ==
    IF f.nbytes % 2 # 0
    THEN Result(s, <<>>, "raise", NoJob)
    ELSE LET r == add_chunk(s, f.nbytes \div 2) IN
         IF ~r.ok
         THEN Result(r.s, <<ErrorMessage("BUFFER_FULL")>>, "ok", NoJob)
         ELSE Result(r.s, <<>>, "ok", NoJob)

\* STTServer._handle_message, binary branch
handle_binary(s, f) ==
    IF ~s.configured
    THEN Result(s, <<ErrorMessage("NOT_CONFIGURED")>>, "ok", NoJob)
    ELSE IF f.nbytes % 2 # 0
    THEN Result(s, <<>>, "raise", NoJob)
    ELSE LET r == add_chunk(s, f.nbytes \div 2) IN
         IF ~r.ok
         THEN Result(r.s, <<ErrorMessage("BUFFER_FULL")>>, "ok", NoJob)
         ELSE Result(r.s, <<>>, "ok", NoJob)

\* a config that also starts the utterance afresh
configure_afresh(s, msg) ==
    [clear(s) EXCEPT !.sample_rate = msg.sample_rate, !.configured = TRUE]

\* _handle_message, isinstance(msg, ConfigMessage)
configure(s, msg) ==
    [s EXCEPT !.sample_rate = msg.sample_rate, !.configured = TRUE]

\* a text branch where a frame that does not parse puts the session back
\* to unconfigured
handle_text_forgetting(s, f) ==
    LET msg == parse_client_message(f) IN
    IF ~msg.ok
    THEN Result([s EXCEPT !.configured = FALSE],
                <<ErrorMessage("PARSE_ERROR")>>, "ok", NoJob)
    ELSE IF msg.type = "config"
    THEN Result(configure(s, msg), <<>>, "ok", NoJob)
    ELSE IF msg.type = "end"
    THEN process_audio(s)
    ELSE Result(s, <<>>, "ok", NoJob)

\* STTServer._handle_message, text branch
handle_text(s, f) ==
    LET msg == parse_client_message(f) IN
    IF ~msg.ok
    THEN Result(s, <<ErrorMessage("PARSE_ERROR")>>, "ok", NoJob)
    ELSE IF msg.type = "config"
    THEN Result(configure(s, msg), <<>>, "ok", NoJob)
    ELSE IF msg.type = "end"
    THEN process_audio(s)
    ELSE Result(s, <<>>, "ok", NoJob)

\* STTServer._handle_message
handle_message(s, f) ==
    IF f.kind = "bin" THEN handle_binary(s, f) ELSE handle_text(s, f)

(* ------------------------ the connection handler ----------------------- *)
Sent(c, ms) == [outbox EXCEPT ![c] = @ \o ms]

\* an admission that sends no "ready"
send_ready_missing == <<>>

\* handle_connection: what is sent on admission
send_ready == <<ReadyMessage>>

\* handle_connection: what is sent to a connection that is turned away
send_server_full == <<ErrorMessage("SERVER_FULL")>>

\* handle_connection: self.sessions[session_id] = session
add_session(S, c) == S \cup {c}

\* a handler exit that leaves the session in the table
del_session_skipped(S, c) == S

\* handle_connection: finally: del self.sessions[session_id]
del_session(S, c) == S \ {c}

\* The handler of c returns holding a permit: "finally: del
\* self.sessions[session_id]", then the semaphore's __aexit__ releases.
\* v, w, p are the semaphore and the handlers' places before that; the
\* websocket is closed when its handler has returned.
HandlerExit(c, v, w, p) ==
    LET r == release(v, w, p) IN
    /\ sessions' = del_session(sessions, c)
    /\ session' = [session EXCEPT ![c] = NewSession]
    /\ sem_value' = r.value
    /\ sem_waiters' = w
    /\ pc' = [r.pc EXCEPT ![c] = "done"]
    /\ job' = [job EXCEPT ![c] = NoJob]
    /\ clientOpen' = [clientOpen EXCEPT ![c] = FALSE]
    /\ waited' = waited \ {c}
    /\ utterance' = [utterance EXCEPT ![c] = <<>>]

\* handle_connection once it holds a permit (v, w, p: the semaphore and the
\* handlers' places after the acquire): the session is entered in the table
\* and "ready" is sent; a send on a closed connection raises
\* ConnectionClosed, which ends the handler.
Admitted(c, v, w, p, open) ==
    IF open
    THEN /\ sessions' = add_session(sessions, c)
         /\ session' = [session EXCEPT ![c] = NewSession]
         /\ outbox' = Sent(c, send_ready)
         /\ sem_value' = v
         /\ sem_waiters' = w
         /\ pc' = [p EXCEPT ![c] = "loop"]
         /\ clientOpen' = [clientOpen EXCEPT ![c] = TRUE]
         /\ UNCHANGED <<job, waited, utterance>>
    ELSE /\ HandlerExit(c, v, w, p)
         /\ UNCHANGED outbox

\* a rejection without the "return": after SERVER_FULL the handler goes on
\* to "async with" and waits for a permit
Reject_no_return(c) ==
    /\ pc[c] = "idle" /\ ~shutdown
    /\ reject_when_full /\ locked
    /\ outbox' = Sent(c, send_server_full)
    /\ clientOpen' = [clientOpen EXCEPT ![c] = FALSE]
    /\ sem_waiters' = Append(sem_waiters, c)
    /\ pc' = [pc EXCEPT ![c] = "waiting"]
    /\ UNCHANGED <<max_connections, reject_when_full, sem_value, sessions,
                   session, job, shutdown, waited, nframes, utterance>>
    /\ UNCHANGED nonServerVars

\* handle_connection, reject_when_full and the semaphore locked
Reject(c) ==
    /\ pc[c] = "idle" /\ ~shutdown
    /\ reject_when_full /\ locked
    /\ outbox' = Sent(c, send_server_full)
    /\ clientOpen' = [clientOpen EXCEPT ![c] = FALSE]   \* websocket.close()
    /\ pc' = [pc EXCEPT ![c] = "done"]                  \* return
    /\ UNCHANGED <<max_connections, reject_when_full, sem_value, sem_waiters,
                   sessions, session, job, shutdown, waited, nframes, utterance>>
    /\ UNCHANGED nonServerVars

\* handle_connection, the semaphore free: acquire() returns at once
AdmitNow(c) ==
    /\ pc[c] = "idle" /\ ~shutdown
    /\ ~locked
    /\ Admitted(c, sem_value - 1, sem_waiters, pc, TRUE)
    /\ UNCHANGED <<max_connections, reject_when_full, shutdown, nframes>>
    /\ UNCHANGED nonServerVars

\* handle_connection, queue mode and the semaphore locked: acquire() waits
Enqueue(c) ==
    /\ pc[c] = "idle" /\ ~shutdown
    /\ ~reject_when_full /\ locked
    /\ sem_waiters' = Append(sem_waiters, c)
    /\ pc' = [pc EXCEPT ![c] = "waiting"]
    /\ clientOpen' = [clientOpen EXCEPT ![c] = TRUE]
    /\ waited' = waited \cup {c}
    /\ UNCHANGED <<max_connections, reject_when_full, sem_value, sessions,
                   session, job, outbox, shutdown, nframes, utterance>>
    /\ UNCHANGED nonServerVars

\* a waiter that was handed a permit runs again: the rest of acquire(),
\* then the body of "async with"
Resume(c) ==
    /\ pc[c] = "granted"
    /\ LET w1 == Remove(sem_waiters, c)
           r1 == IF sem_value > 0 THEN wake_up_next(sem_value, w1, pc)
                 ELSE [value |-> sem_value, pc |-> pc]
       IN  Admitted(c, r1.value, w1, r1.pc, clientOpen[c])
    /\ UNCHANGED <<max_connections, reject_when_full, shutdown, nframes>>
    /\ UNCHANGED nonServerVars

\* What the client of a session learns from the reply to frame f (sent: the
\* frames the server sends in reply): u is the audio it knows the server to
\* have taken for the utterance in progress.
heard(u, f, sent) ==
    IF f.kind = "bin"
    THEN IF sent = <<>> THEN Append(u, f.nbytes \div 2) ELSE u
    ELSE IF f.type = "end" THEN <<>> ELSE u

\* "async for message in websocket" delivers frame f: _handle_message.
\* A frame the client sent before it closed the connection is still
\* delivered.  limit bounds the frames taken during one run.
AsyncForMessage(c, f, limit) ==
    /\ pc[c] = "loop"
    /\ nframes < limit
    /\ nframes' = nframes + 1
    /\ LET r == handle_message(session[c], f) IN
       CASE r.outcome = "raise" ->
              \* except Exception: try to send INTERNAL, then finally
              /\ outbox' = IF clientOpen[c]
                           THEN Sent(c, <<ErrorMessage("INTERNAL")>>) ELSE outbox
              /\ HandlerExit(c, sem_value, sem_waiters, pc)
         [] r.outcome = "transcribe" ->
              /\ session' = [session EXCEPT ![c] = r.s]
              /\ job' = [job EXCEPT ![c] = r.job]
              /\ pc' = [pc EXCEPT ![c] = "transcribing"]
              /\ utterance' = [utterance EXCEPT ![c] = heard(@, f, r.send)]
              /\ UNCHANGED <<sem_value, sem_waiters, sessions, outbox, clientOpen, waited>>
         [] r.outcome = "ok" /\ r.send # <<>> /\ ~clientOpen[c] ->
              \* the send raises ConnectionClosed
              /\ HandlerExit(c, sem_value, sem_waiters, pc)
              /\ UNCHANGED outbox
         [] OTHER ->
              /\ session' = [session EXCEPT ![c] = r.s]
              /\ outbox' = Sent(c, r.send)
              /\ utterance' = [utterance EXCEPT ![c] = heard(@, f, r.send)]
              /\ UNCHANGED <<sem_value, sem_waiters, sessions, pc, job, clientOpen, waited>>
    /\ UNCHANGED <<max_connections, reject_when_full, shutdown>>
    /\ UNCHANGED nonServerVars

\* a frame is delivered to the handler of c while the server serves all
\* its connections
HandleMessage(c, f) == AsyncForMessage(c, f, MaxFrames)

\* _process_audio without its try/except: an exception of the transcriber
\* leaves _handle_message and ends the handler with INTERNAL
Transcribed_uncaught(c, res) ==
    /\ pc[c] = "transcribing"
    /\ IF clientOpen[c] /\ res.ok
       THEN /\ outbox' = Sent(c, <<FinalMessage(res.text, 1)>>)
            /\ pc' = [pc EXCEPT ![c] = "loop"]
            /\ job' = [job EXCEPT ![c] = NoJob]
            /\ UNCHANGED <<sem_value, sem_waiters, sessions, session, clientOpen,
                           waited, utterance>>
       ELSE /\ HandlerExit(c, sem_value, sem_waiters, pc)
            /\ outbox' = IF clientOpen[c]
                         THEN Sent(c, <<ErrorMessage("INTERNAL")>>) ELSE outbox
    /\ UNCHANGED <<max_connections, reject_when_full, shutdown, nframes>>
    /\ UNCHANGED nonServerVars

\* the rest of _process_audio once Transcriber.transcribe has ended with
\* res (a text, or an exception): "final" or TRANSCRIPTION_ERROR is sent
Transcribed(c, res) ==
    /\ pc[c] = "transcribing"
    /\ IF clientOpen[c]
       THEN /\ outbox' = Sent(c, IF res.ok THEN <<FinalMessage(res.text, 1)>>
                                 ELSE <<ErrorMessage("TRANSCRIPTION_ERROR")>>)
            /\ pc' = [pc EXCEPT ![c] = "loop"]
            /\ job' = [job EXCEPT ![c] = NoJob]
            /\ UNCHANGED <<sem_value, sem_waiters, sessions, session, clientOpen,
                           waited, utterance>>
       ELSE /\ HandlerExit(c, sem_value, sem_waiters, pc)
            /\ UNCHANGED outbox
    /\ UNCHANGED <<max_connections, reject_when_full, shutdown, nframes>>
    /\ UNCHANGED nonServerVars

\* the worker finishes Transcriber.transcribe
TranscribeDone(c) == \E res \in transcribe(job[c]) : Transcribed(c, res)

\* "async for" finds the connection closed and no frame left to deliver
ConnectionClosed(c) ==
    /\ pc[c] = "loop" /\ ~clientOpen[c]
    /\ HandlerExit(c, sem_value, sem_waiters, pc)
    /\ UNCHANGED <<max_connections, reject_when_full, outbox, shutdown, nframes>>
    /\ UNCHANGED nonServerVars

\* the handler's task is cancelled at shutdown, at whichever await it is
Cancel(c) ==
    /\ shutdown
    /\ \/ /\ pc[c] = "waiting"
          /\ sem_waiters' = Remove(sem_waiters, c)
          /\ pc' = [pc EXCEPT ![c] = "done"]
          /\ clientOpen' = [clientOpen EXCEPT ![c] = FALSE]
          /\ waited' = waited \ {c}
          /\ UNCHANGED <<sem_value, sessions, session, job, utterance>>
       \/ /\ pc[c] = "granted"
          /\ LET w1 == Remove(sem_waiters, c)
                 r == release(sem_value, w1, pc)
             IN  /\ sem_value' = r.value
                 /\ sem_waiters' = w1
                 /\ pc' = [r.pc EXCEPT ![c] = "done"]
          /\ clientOpen' = [clientOpen EXCEPT ![c] = FALSE]
          /\ waited' = waited \ {c}
          /\ UNCHANGED <<sessions, session, job, utterance>>
       \/ /\ pc[c] \in {"loop", "transcribing"}
          /\ HandlerExit(c, sem_value, sem_waiters, pc)
    /\ UNCHANGED <<max_connections, reject_when_full, outbox, shutdown, nframes>>
    /\ UNCHANGED nonServerVars

\* STTServer.shutdown, from SIGINT or SIGTERM
Shutdown ==
    /\ ~shutdown
    /\ shutdown' = TRUE
    /\ UNCHANGED <<max_connections, reject_when_full, sem_value, sem_waiters, sessions,
                   session, pc, job, outbox, clientOpen, waited, nframes, utterance>>
    /\ UNCHANGED nonServerVars

(* ------------------------------ clients -------------------------------- *)
\* the client closes the connection (or it is lost)
ClientClose(c) ==
    /\ clientOpen[c]
    /\ clientOpen' = [clientOpen EXCEPT ![c] = FALSE]
    /\ UNCHANGED <<max_connections, reject_when_full, sem_value, sem_waiters, sessions,
                   session, pc, job, outbox, shutdown, waited, nframes, utterance>>
    /\ UNCHANGED nonServerVars

Next ==
    \/ \E c \in Conns : Reject(c)
    \/ \E c \in Conns : AdmitNow(c)
    \/ \E c \in Conns : Enqueue(c)
    \/ \E c \in Conns : Resume(c)
    \/ \E c \in Conns, f \in Frames : HandleMessage(c, f)
    \/ \E c \in Conns : TranscribeDone(c)
    \/ \E c \in Conns : ConnectionClosed(c)
    \/ \E c \in Conns : Cancel(c)
    \/ Shutdown
    \/ \E c \in Conns : ClientClose(c)

Spec == Init /\ [][Next]_vars

\* The event loop runs every handler that is ready: a waiter whose future
\* was resolved is scheduled and does run.
LiveSpec == Spec /\ \A c \in Conns : WF_vars(Resume(c))

(* --------------------------- one lone session -------------------------- *)
\* The server with a single client: the first connection is admitted at
\* once and its handler takes up to MaxSessionFrames frames, enough for two
\* utterances on the same session.
FirstConn == 1

\* a frame is delivered to the handler of the lone session
SessionMessage(f) == AsyncForMessage(FirstConn, f, MaxSessionFrames)

SessionNext ==
    \/ AdmitNow(FirstConn)
    \/ \E f \in Frames : SessionMessage(f)
    \/ TranscribeDone(FirstConn)
    \/ ConnectionClosed(FirstConn)
    \/ ClientClose(FirstConn)

SessionSpec == Init /\ [][SessionNext]_vars

(* ============================ protocol.py ============================== *)
\* Client control messages and their JSON text.  A string is a sequence of
\* characters; a JSON text is the sequence of the members of one object,
\* each value as it is written: a string with its escapes, or a number with
\* its sign and decimal digits.

\* unknown fields added to a message
MaxExtraFields == 1

\* characters of the strings; "config", "end" and "keepalive" stand for
\* the letters of these words
Chars == {"e", "n", "\"", "\\"}
Languages == {<<"e", "n">>, <<>>, <<"\"">>, <<"n", "\\">>}
\* sample_rate values of the messages encoded
WireSampleRates == {-1, 0, 9, 16000, 44100}

\* ConfigMessage, EndMessage, KeepAliveMessage
ConfigMessage(r, l) == [type |-> "config", sample_rate |-> r, language |-> l]
EndMessage == [type |-> "end"]
KeepAliveMessage == [type |-> "keepalive"]
ClientMessages ==
    {ConfigMessage(r, l) : r \in WireSampleRates, l \in Languages}
        \cup {EndMessage, KeepAliveMessage}

\* a string written without escapes
escape_raw(str) == str

\* the characters of a JSON string for str: quote and backslash escaped
RECURSIVE escape(_)
escape(str) ==
    IF str = <<>> THEN <<>>
    ELSE (IF Head(str) \in {"\"", "\\"} THEN <<"\\", Head(str)>> ELSE <<Head(str)>>)
             \o escape(Tail(str))

\* a JSON string is well formed when every quote and backslash in it is
\* escaped
RECURSIVE well_formed(_)
well_formed(t) ==
    IF t = <<>> THEN TRUE
    ELSE IF Head(t) = "\\" THEN Len(t) >= 2 /\ well_formed(SubSeq(t, 3, Len(t)))
    ELSE Head(t) # "\"" /\ well_formed(Tail(t))

\* the string a well-formed JSON string stands for
RECURSIVE unescape(_)
unescape(t) ==
    IF t = <<>> THEN <<>>
    ELSE IF Head(t) = "\\" THEN <<t[2]>> \o unescape(SubSeq(t, 3, Len(t)))
    ELSE <<Head(t)>> \o unescape(Tail(t))

\* the decimal digits of n >= 0, and the number a sequence of digits stands for
RECURSIVE digits(_)
digits(n) == IF n < 10 THEN <<n>> ELSE Append(digits(n \div 10), n % 10)
RECURSIVE number(_)
number(d) == IF d = <<>> THEN 0 ELSE 10 * number(SubSeq(d, 1, Len(d) - 1)) + d[Len(d)]

\* JSON values as written
JStr(str) == [kind |-> "str", chars |-> escape(str), neg |-> FALSE, digits |-> <<>>]
JNum(n) == [kind |-> "num", chars |-> <<>>, neg |-> n < 0,
            digits |-> digits(IF n < 0 THEN -n ELSE n)]
Member(k, v) == [key |-> k, val |-> v]

\* BaseModel.model_dump_json: every field, in the order of the class
model_dump_json(m) ==
    IF m.type = "config"
    THEN <<Member("type", JStr(<<m.type>>)),
           Member("sample_rate", JNum(m.sample_rate)),
           Member("language", JStr(m.language))>>
    ELSE <<Member("type", JStr(<<m.type>>))>>

\* Python values: a str, an int, or None
PyStr(str) == [t |-> "str", s |-> str, n |-> 0]
PyInt(n) == [t |-> "int", s |-> <<>>, n |-> n]
None == [t |-> "none", s |-> <<>>, n |-> 0]

\* json.loads of one value
loads_value(v) ==
    IF v.kind = "str" THEN PyStr(unescape(v.chars))
    ELSE PyInt(IF v.neg THEN 0 - number(v.digits) ELSE number(v.digits))

\* json.loads raises on a text that is not JSON
is_json(text) ==
    \A i \in 1..Len(text) : text[i].val.kind = "str" => well_formed(text[i].val.chars)

\* json.loads of an object: a dict; of members with the same key the last
\* one counts
json_loads(text) ==
    [k \in {text[i].key : i \in 1..Len(text)} |->
        LET last == CHOOSE i \in 1..Len(text) :
                        /\ text[i].key = k
                        /\ \A j \in 1..Len(text) : text[j].key = k => j <= i
        IN  loads_value(text[last].val)]

\* dict.get
get(d, k) == IF k \in DOMAIN d THEN d[k] ELSE None

Parsed(m) == [ok |-> TRUE, msg |-> m]
Raised == [ok |-> FALSE, msg |-> NoMessage]

\* ConfigMessage(**parsed): sample_rate must be an int and language a str,
\* a missing field takes its default, other fields are ignored
validate_config(d) ==
    LET sr   == get(d, "sample_rate")
        lang == get(d, "language")
    IN  IF sr.t = "str" \/ lang.t = "int" THEN Raised
        ELSE Parsed(ConfigMessage(IF sr.t = "none" THEN DEFAULT_SAMPLE_RATE ELSE sr.n,
                                  IF lang.t = "none" THEN <<"e", "n">> ELSE lang.s))

\* parse_client_message on a JSON text written out
parse_client_message_text(text) ==
    IF ~is_json(text) THEN Raised
    ELSE LET parsed   == json_loads(text)
             msg_type == get(parsed, "type")
         IN  IF msg_type = PyStr(<<"config">>) THEN validate_config(parsed)
             ELSE IF msg_type = PyStr(<<"end">>) THEN Parsed(EndMessage)
             ELSE IF msg_type = PyStr(<<"keepalive">>) THEN Parsed(KeepAliveMessage)
             ELSE Raised

\* fields that no client message has
UnknownKeys == {"session_id", "x"}
UnknownValues == {JStr(<<"e">>), JStr(<<"config">>), JNum(7)}
Fields == {"type", "sample_rate", "language"}
InsertAt(seq, i, x) == SubSeq(seq, 1, i) \o <<x>> \o SubSeq(seq, i + 1, Len(seq))

\* a client has a message to send
ProtocolInit ==
    /\ ServerInit /\ max_connections = MaxPermits /\ reject_when_full
    /\ ControllerInit /\ ClientIdle /\ ListenerIdle
    /\ daemon_mode = FALSE /\ mode = NewMode("none")
    /\ sent_msg \in ClientMessages
    /\ wire = <<>>
    /\ parsed_msg = Raised
    /\ proto_pc = "new"

\* the client encodes the message (client.py send_config; json.dumps of
\* {"type": "end"} gives the text model_dump_json gives for EndMessage)
Encode ==
    /\ proto_pc = "new"
    /\ wire' = model_dump_json(sent_msg)
    /\ proto_pc' = "encoded"
    /\ UNCHANGED <<sent_msg, parsed_msg, serverVars, pttVars, listenerVars, clientVars>>

\* a newer client adds a field the server does not know, anywhere in the
\* object
AddUnknownField ==
    /\ proto_pc = "encoded"
    /\ Cardinality({i \in 1..Len(wire) : wire[i].key \notin Fields}) < MaxExtraFields
    /\ \E k \in UnknownKeys, v \in UnknownValues, i \in 0..Len(wire) :
          wire' = InsertAt(wire, i, Member(k, v))
    /\ UNCHANGED <<sent_msg, parsed_msg, proto_pc, serverVars, pttVars, listenerVars, clientVars>>

\* the server decodes the text
Decode ==
    /\ proto_pc = "encoded"
    /\ parsed_msg' = parse_client_message_text(wire)
    /\ proto_pc' = "parsed"
    /\ UNCHANGED <<sent_msg, wire, serverVars, pttVars, listenerVars, clientVars>>

ProtocolNext == Encode \/ AddUnknownField \/ Decode

ProtocolSpec == ProtocolInit /\ [][ProtocolNext]_vars

(* ============================== ptt.py ================================ *)
\* The PTTController of a client and the callbacks run_ptt_mode gives it.
\* The callbacks of the listener, the timers and the tasks all run on one
\* event loop, each to its next await; times are left out, so that a timer
\* may expire at any moment after it was set.

\* hotkey events the listener delivers during one run
MaxHotkeyEvents == 4
\* recordings the controller starts during one run
MaxRecordings == 2
\* chunks the audio callback adds to the accumulator during one recording
MaxChunks == 1

\* what a method of the controller leaves: the controller, and the
\* callbacks it has called
Ret(p, called) == [p |-> p, calls |-> called]

\* _submit_recording that leaves the state at RECORDING
submit_recording_no_state(p) ==
    Ret([p EXCEPT !.duration_check_task = "none",
                  !.processing_start_time = 1],
        <<"stop">>)

\* PTTController._submit_recording
submit_recording(p) ==
    Ret([p EXCEPT !.duration_check_task = "none",
                  !.state = "PROCESSING",
                  !.processing_start_time = 1],
        <<"stop">>)

\* _on_hotkey_activate without the test of the state
on_hotkey_activate_unguarded(p) ==
    Ret([p EXCEPT !.state = "RECORDING",
                  !.auto_submitted = FALSE,
                  !.duration_check_task = "sleeping"],
        <<"start">>)

\* PTTController._on_hotkey_activate: the old duration task, if any, is
\* cancelled and a new one made
on_hotkey_activate(p) ==
    IF p.state # "IDLE" THEN Ret(p, <<>>)
    ELSE Ret([p EXCEPT !.state = "RECORDING",
                       !.auto_submitted = FALSE,
                       !.duration_check_task = "sleeping"],
             <<"start">>)

\* PTTController._on_hotkey_deactivate
on_hotkey_deactivate(p) ==
    IF p.state # "RECORDING" THEN Ret(p, <<>>)
    ELSE IF p.auto_submitted
    THEN Ret([p EXCEPT !.auto_submitted = FALSE, !.state = "IDLE"], <<>>)
    ELSE submit_recording(p)

\* _monitor_duration that submits without noting the automatic submission
monitor_duration_unmarked(p) ==
    IF p.state = "RECORDING"
    THEN submit_recording(p)
    ELSE Ret([p EXCEPT !.duration_check_task = "ended"], <<>>)

\* PTTController._monitor_duration once its sleep is over; the task ends
monitor_duration(p) ==
    IF p.state = "RECORDING"
    THEN submit_recording([p EXCEPT !.auto_submitted = TRUE])
    ELSE Ret([p EXCEPT !.duration_check_task = "ended"], <<>>)

\* _state_watchdog that resets the timer only
state_watchdog_timer_only(p) ==
    IF p.state = "PROCESSING" /\ p.processing_start_time > 0
    THEN [p EXCEPT !.processing_start_time = 0]
    ELSE p

\* PTTController._state_watchdog, one round in which the time in
\* PROCESSING is over _processing_timeout
state_watchdog(p) ==
    IF p.state = "PROCESSING" /\ p.processing_start_time > 0
    THEN [p EXCEPT !.state = "IDLE", !.processing_start_time = 0]
    ELSE p

\* PTTController.on_processing_complete
on_processing_complete(p) ==
    IF p.state = "PROCESSING"
    THEN [p EXCEPT !.state = "IDLE", !.processing_start_time = 0]
    ELSE p

\* tray.set_state under "if tray:"
set_state(m, s) == IF m.tray = "none" THEN m ELSE [m EXCEPT !.tray = s]

\* run_ptt_mode.on_device_count_changed
on_device_count_changed(m, count) ==
    IF m.tray = "none" THEN m
    ELSE IF count = 0 THEN set_state(m, "DEGRADED")
    ELSE IF m.tray # "RECORDING" THEN set_state(m, "READY")
    ELSE m

\* the nonlocal recording_task of run_ptt_mode: the latest start_recording
\* task (0: None)
recording_task == Len(start_tasks)

\* a wait_and_stop task that has not run yet, made in the cycle of the
\* start_recording task c
NewStop(c) == [pc |-> "new", task |-> 0, cycle |-> c]

\* run_ptt_mode.on_start and on_stop, for the callbacks a method called:
\* on_start makes a start_recording task and keeps it as recording_task,
\* on_stop makes a wait_and_stop task
tasks_after(called, starts, stops) ==
    IF called = <<"start">> THEN [starts |-> Append(starts, "new"), stops |-> stops]
    ELSE IF called = <<"stop">>
    THEN [starts |-> starts, stops |-> Append(stops, NewStop(Len(starts)))]
    ELSE [starts |-> starts, stops |-> stops]

\* a method of the controller has run and left r
Controller(r) ==
    LET t == tasks_after(r.calls, start_tasks, stop_tasks) IN
    /\ ptt' = r.p
    /\ calls' = calls \o r.calls
    /\ start_tasks' = t.starts
    /\ stop_tasks' = t.stops

\* the listener calls on_activate
Activate ==
    /\ Len(events) < MaxHotkeyEvents
    /\ ptt.state = "IDLE" => Len(start_tasks) < MaxRecordings
    /\ events' = Append(events, "press")
    /\ Controller(on_hotkey_activate(ptt))

\* the listener calls on_deactivate
Deactivate ==
    /\ Len(events) < MaxHotkeyEvents
    /\ events' = Append(events, "release")
    /\ Controller(on_hotkey_deactivate(ptt))

\* the listener delivers a press of the hotkey
HotkeyActivate ==
    /\ Activate
    /\ UNCHANGED <<mode, daemon_mode, nonPttVars>>

\* the listener delivers a release of the hotkey
HotkeyDeactivate ==
    /\ Deactivate
    /\ UNCHANGED <<mode, daemon_mode, nonPttVars>>

\* the sleep of the duration task is over
MonitorDuration ==
    /\ ptt.duration_check_task = "sleeping"
    /\ Controller(monitor_duration(ptt))
    /\ UNCHANGED <<events, mode, daemon_mode, nonPttVars>>

\* the watchdog finds the controller in PROCESSING for too long
StateWatchdog ==
    /\ ptt.state = "PROCESSING" /\ ptt.processing_start_time > 0
    /\ ptt' = state_watchdog(ptt)
    /\ UNCHANGED <<start_tasks, stop_tasks, calls, events, mode, daemon_mode,
                   nonPttVars>>

\* the sounddevice callback of an open capture stream
AudioCallback ==
    /\ mode.open_streams # {} /\ mode.audio_chunks < MaxChunks
    /\ mode' = [mode EXCEPT !.audio_chunks = @ + 1]
    /\ UNCHANGED <<ptt, start_tasks, stop_tasks, calls, events, daemon_mode,
                   nonPttVars>>

\* PTTClient.connect: "ready" (the server admits and says ready),
\* "timeout" (connected, no ready in time), "full" (connected, the server
\* answers SERVER_FULL and closes) or "refused" (no connection)
connect(m, outcome) ==
    IF outcome = "refused" THEN m
    ELSE [m EXCEPT !.websocket = TRUE,
                   !.ready = (outcome = "ready"),
                   !.open = (outcome # "full")]

\* start_recording of recording k once ensure_connected has returned True:
\* the config is sent (or the send raises, the connection being closed,
\* and the task ends there), the accumulator emptied and the capture
\* stream opened
begin_capture(m, k) ==
    IF m.open
    THEN [m EXCEPT !.configs = @ + 1, !.audio_chunks = 0, !.sent_chunks = 0,
                   !.stream = "open", !.stream_cycle = k,
                   !.open_streams = @ \cup {k}]
    ELSE m

\* start_recording, task k, from its start to its first await: the tray
\* shows RECORDING; with a websocket ensure_connected returns True at once,
\* without one it shows DISCONNECTED and makes a client that connects.
\* (loop.create_task: the tasks made before this one have started.)
StartRecordingBegin(k) ==
    /\ k \in 1..Len(start_tasks) /\ start_tasks[k] = "new"
    /\ \A i \in 1..(k - 1) : start_tasks[i] # "new"
    /\ \A i \in 1..Len(stop_tasks) :
          stop_tasks[i].cycle < k => stop_tasks[i].pc # "new"
    /\ IF mode.websocket
       THEN /\ mode' = begin_capture(set_state(mode, "RECORDING"), k)
            /\ start_tasks' = [start_tasks EXCEPT ![k] = "done"]
       ELSE /\ mode' = set_state(set_state(mode, "RECORDING"), "DISCONNECTED")
            /\ start_tasks' = [start_tasks EXCEPT ![k] = "pending"]
    /\ UNCHANGED <<ptt, stop_tasks, calls, events, daemon_mode, nonPttVars>>

\* start_recording, task k: an attempt of ensure_connected has connected
\* and the function returns True; the config is sent and the capture
\* stream opened
StartRecording(k) ==
    /\ k \in 1..Len(start_tasks) /\ start_tasks[k] = "pending"
    /\ start_tasks' = [start_tasks EXCEPT ![k] = "done"]
    /\ mode' = begin_capture(set_state(connect(mode, "ready"), "READY"), k)
    /\ UNCHANGED <<ptt, stop_tasks, calls, events, daemon_mode, nonPttVars>>

\* ensure_connected of task k: an attempt got a websocket and no "ready";
\* connect returns False and the loop goes on
ConnectFails(k, outcome) ==
    /\ k \in 1..Len(start_tasks) /\ start_tasks[k] = "pending"
    /\ mode' = connect(mode, outcome)
    /\ mode' # mode
    /\ UNCHANGED <<ptt, start_tasks, stop_tasks, calls, events, daemon_mode,
                   nonPttVars>>

\* the connection of the websocket held is closed (the server went away)
ConnectionLost ==
    /\ mode.open
    /\ mode' = [mode EXCEPT !.open = FALSE]
    /\ UNCHANGED <<ptt, start_tasks, stop_tasks, calls, events, daemon_mode,
                   nonPttVars>>

\* a failed start_recording that empties the accumulator all the same
not_connected_clearing(m) == [m EXCEPT !.audio_chunks = 0]

\* what start_recording does to run_ptt_mode's state when ensure_connected
\* has returned False: nothing
not_connected(m) == m

\* start_recording, task k: ensure_connected has returned False (only
\* outside daemon mode, where the attempts are limited)
StartRecordingNotConnected(k) ==
    /\ ~daemon_mode
    /\ k \in 1..Len(start_tasks) /\ start_tasks[k] = "pending"
    /\ start_tasks' = [start_tasks EXCEPT ![k] = "done"]
    /\ ptt' = [ptt EXCEPT !.state = "IDLE"]
    /\ mode' = not_connected(mode)
    /\ UNCHANGED <<stop_tasks, calls, events, daemon_mode, nonPttVars>>

\* run_ptt_mode.stop_recording, up to on_processing_complete: the stream
\* the variable holds is closed and the tray shows READY; with a websocket
\* and a non-empty accumulator the chunks are sent, which raises on a
\* closed connection (what the server answers is left out)
stop_recording(m) ==
    LET m1 == set_state([m EXCEPT !.stream = "none", !.stream_cycle = 0,
                                  !.open_streams = @ \ {m.stream_cycle}],
                        "READY")
    IN  IF m1.websocket /\ m1.audio_chunks > 0 /\ m1.open
        THEN [m1 EXCEPT !.sent_chunks = m1.audio_chunks]
        ELSE m1

\* the wait_and_stop task j runs stop_recording and ends
StopRecording(j) ==
    /\ stop_tasks' = SubSeq(stop_tasks, 1, j - 1) \o SubSeq(stop_tasks, j + 1, Len(stop_tasks))
    /\ mode' = stop_recording(mode)
    /\ ptt' = on_processing_complete(ptt)
    /\ UNCHANGED <<start_tasks, calls, events, daemon_mode, nonPttVars>>

\* wait_and_stop, task j, from its start: it awaits the start_recording
\* task that recording_task names now, if that is not done, and else runs
\* stop_recording.  (loop.create_task: the tasks made before this one
\* have started.)
WaitAndStopBegin(j) ==
    /\ j \in 1..Len(stop_tasks) /\ stop_tasks[j].pc = "new"
    /\ \A i \in 1..stop_tasks[j].cycle : start_tasks[i] # "new"
    /\ \A i \in 1..(j - 1) : stop_tasks[i].pc # "new"
    /\ IF recording_task # 0 /\ start_tasks[recording_task] # "done"
       THEN /\ stop_tasks' = [stop_tasks EXCEPT ![j].pc = "waiting",
                                                ![j].task = recording_task]
            /\ UNCHANGED <<ptt, mode, start_tasks, calls, events, daemon_mode,
                           nonPttVars>>
       ELSE StopRecording(j)

\* wait_and_stop, task j: the start_recording task it awaited is done;
\* stop_recording runs and ends in on_processing_complete
WaitAndStop(j) ==
    /\ j \in 1..Len(stop_tasks) /\ stop_tasks[j].pc = "waiting"
    /\ start_tasks[stop_tasks[j].task] = "done"
    /\ StopRecording(j)

\* run_ptt_mode --tray with a server that was never started
PttInit ==
    /\ ServerInit /\ max_connections = MaxPermits /\ reject_when_full
    /\ ProtocolIdle
    /\ ControllerInit /\ ClientIdle
    /\ ListenerIdle
    /\ daemon_mode \in BOOLEAN
    /\ mode = NewMode("DISCONNECTED")

PttNext ==
    \/ HotkeyActivate
    \/ HotkeyDeactivate
    \/ MonitorDuration
    \/ StateWatchdog
    \/ AudioCallback
    \/ \E k \in 1..MaxRecordings : StartRecordingBegin(k)
    \/ \E k \in 1..MaxRecordings : StartRecording(k)
    \/ \E k \in 1..MaxRecordings : StartRecordingNotConnected(k)
    \/ \E k \in 1..MaxRecordings, outcome \in {"timeout", "full"} : ConnectFails(k, outcome)
    \/ ConnectionLost
    \/ \E j \in 1..MaxRecordings : WaitAndStopBegin(j)
    \/ \E j \in 1..MaxRecordings : WaitAndStop(j)

PttSpec == PttInit /\ [][PttNext]_vars

\* the controller with a watchdog that is sure to come round while
\* PTTController.run is active; nothing else is sure to happen
PttLiveSpec == PttSpec /\ WF_vars(StateWatchdog)

(* ======================= ptt.py: hotkey listeners ====================== *)
\* EvdevHotkeyListener: one _read_device task per keyboard, a scanner that
\* picks up keyboards as they appear, and the callbacks on_activate,
\* on_deactivate and on_device_count_changed.  In run_ptt_mode
\* (wired = TRUE) PTTController.run sets the first two to the controller's
\* methods and the third is run_ptt_mode.on_device_count_changed; a
\* listener on its own (wired = FALSE) has callbacks that do nothing.

\* keyboards there are
NumDevices == 2
\* events the keyboards, or the terminal, deliver during one run
MaxKeyEvents == 4

Devices == 1..NumDevices
FirstDevice == 1

\* settings.ptt.hotkey with its default, and one key more
HotkeyCodes == {"LEFTCTRL", "LEFTMETA"}
KeyCodes == HotkeyCodes \cup {"A"}

\* the calls of the callbacks, as they are logged
Activated == [callback |-> "on_activate", count |-> 0]
Deactivated == [callback |-> "on_deactivate", count |-> 0]
Counted(n) == [callback |-> "on_device_count_changed", count |-> n]

\* EvdevHotkeyListener._get_all_pressed_keys
get_all_pressed_keys(l) ==
    UNION {l.pressed_keys_by_device[d] : d \in DOMAIN l.pressed_keys_by_device}

\* _check_hotkey that does not look at _hotkey_active
check_hotkey_stateless(l) ==
    IF HotkeyCodes \subseteq get_all_pressed_keys(l)
    THEN Ret([l EXCEPT !.hotkey_active = TRUE], <<Activated>>)
    ELSE Ret([l EXCEPT !.hotkey_active = FALSE], <<Deactivated>>)

\* EvdevHotkeyListener._check_hotkey (what a callback raises is caught)
check_hotkey(l) ==
    LET all_pressed == HotkeyCodes \subseteq get_all_pressed_keys(l) IN
    IF all_pressed /\ ~l.hotkey_active
    THEN Ret([l EXCEPT !.hotkey_active = TRUE], <<Activated>>)
    ELSE IF ~all_pressed /\ l.hotkey_active
    THEN Ret([l EXCEPT !.hotkey_active = FALSE], <<Deactivated>>)
    ELSE Ret(l, <<>>)

\* EvdevHotkeyListener._read_device, one EV_KEY event of the device at
\* path: value 1 is a press, 0 a release, 2 a repeat
read_device(l, path, code, value) ==
    LET keys == l.pressed_keys_by_device IN
    IF value = 1
    THEN check_hotkey([l EXCEPT !.pressed_keys_by_device =
             IF path \in DOMAIN keys
             THEN [keys EXCEPT ![path] = @ \cup {code}]
             ELSE (path :> {code}) @@ keys])
    ELSE IF value = 0
    THEN check_hotkey([l EXCEPT !.pressed_keys_by_device =
             IF path \in DOMAIN keys
             THEN [keys EXCEPT ![path] = @ \ {code}]
             ELSE keys])
    ELSE Ret(l, <<>>)

\* _on_device_disconnected that keeps the keys of the device
on_device_disconnected_keeping(l, path) ==
    LET l1 == [l EXCEPT !.device_tasks = @ \ {path}] IN
    Ret(l1, <<Counted(Cardinality(l1.device_tasks))>>)

\* _on_device_disconnected that notifies of the count first
on_device_disconnected_count_first(l, path) ==
    LET l1 == [l EXCEPT
                 !.pressed_keys_by_device =
                     [d \in (DOMAIN @) \ {path} |-> @[d]],
                 !.device_tasks = @ \ {path}]
        incomplete == l1.hotkey_active
                      /\ ~(HotkeyCodes \subseteq get_all_pressed_keys(l1))
    IN  Ret([l1 EXCEPT !.hotkey_active = @ /\ ~incomplete],
            <<Counted(Cardinality(l1.device_tasks))>>
            \o (IF incomplete THEN <<Deactivated>> ELSE <<>>))

\* EvdevHotkeyListener._on_device_disconnected
on_device_disconnected(l, path) ==
    LET l1 == [l EXCEPT
                 !.pressed_keys_by_device =
                     [d \in (DOMAIN @) \ {path} |-> @[d]],
                 !.device_tasks = @ \ {path}]
        incomplete == l1.hotkey_active
                      /\ ~(HotkeyCodes \subseteq get_all_pressed_keys(l1))
    IN  Ret([l1 EXCEPT !.hotkey_active = @ /\ ~incomplete],
            (IF incomplete THEN <<Deactivated>> ELSE <<>>)
            \o <<Counted(Cardinality(l1.device_tasks))>>)

\* EvdevHotkeyListener._start_device_task for each of the keyboards found
start_device_tasks(l, found) ==
    [l EXCEPT !.device_tasks = @ \cup found,
              !.pressed_keys_by_device =
                  [d \in (DOMAIN @) \cup found |->
                      IF d \in found THEN {} ELSE @[d]]]

\* EvdevHotkeyListener.start, up to its waiting loop
start(l, found) ==
    LET l1 == start_device_tasks([l EXCEPT !.running = TRUE], found) IN
    Ret(l1, <<Counted(Cardinality(l1.device_tasks))>>)

\* EvdevHotkeyListener._device_scanner_loop, one round that finds the
\* keyboards found beside those it monitors: a task and a notification
\* for each
device_scanner_loop(l, found) ==
    Ret(start_device_tasks(l, found),
        [i \in 1..Cardinality(found) |-> Counted(Cardinality(l.device_tasks) + i)])

\* EvdevHotkeyListener.stop
stop(l) == [l EXCEPT !.running = FALSE, !.device_tasks = {},
                     !.pressed_keys_by_device = <<>>, !.hotkey_active = FALSE]

\* on_device_count_changed for each count among the calls, in order
RECURSIVE count_changes(_, _)
count_changes(m, called) ==
    IF called = <<>> THEN m
    ELSE count_changes(IF Head(called).callback = "on_device_count_changed"
                       THEN on_device_count_changed(m, Head(called).count)
                       ELSE m,
                       Tail(called))

\* the callbacks a step of the listener called, run: those of
\* run_ptt_mode and its controller if the listener is wired to them
Dispatch(called) ==
    IF ~wired THEN UNCHANGED pttVars
    ELSE /\ IF \E i \in 1..Len(called) : called[i] = Activated THEN Activate
            ELSE IF \E i \in 1..Len(called) : called[i] = Deactivated THEN Deactivate
            ELSE UNCHANGED <<ptt, start_tasks, stop_tasks, calls, events>>
         /\ mode' = count_changes(mode, called)
         /\ UNCHANGED daemon_mode

\* a step of the listener has left r
Listener(r) ==
    /\ listener' = r.p
    /\ callbacks' = callbacks \o r.calls
    /\ Dispatch(r.calls)
    /\ UNCHANGED <<wired, keyboards, term, serverVars, protoVars, clientVars>>

\* EvdevHotkeyListener.start
ListenerStart ==
    /\ ~listener.running /\ callbacks = <<>> /\ term.pc = "idle"
    /\ reading' = plugged
    /\ Listener(start(listener, plugged))
    /\ UNCHANGED <<plugged, nkeys>>

\* a round of the scanner that finds new keyboards
DeviceScan ==
    /\ listener.running
    /\ plugged \ listener.device_tasks # {}
    /\ reading' = reading \cup plugged
    /\ Listener(device_scanner_loop(listener, plugged \ listener.device_tasks))
    /\ UNCHANGED <<plugged, nkeys>>

\* the read loop of a keyboard delivers a key event
KeyEvent(d, code, value) ==
    /\ listener.running /\ d \in reading
    /\ nkeys < MaxKeyEvents
    /\ nkeys' = nkeys + 1
    /\ Listener(read_device(listener, d, code, value))
    /\ UNCHANGED <<plugged, reading>>

\* a keyboard goes away (unplugged, or the KVM switched): its read loop
\* ends by an OSError
Disconnect(d) ==
    /\ listener.running /\ d \in reading
    /\ nkeys < MaxKeyEvents
    /\ nkeys' = nkeys + 1
    /\ plugged' = plugged \ {d}
    /\ reading' = reading \ {d}
    /\ Listener(on_device_disconnected(listener, d))

\* a keyboard appears
Plug(d) ==
    /\ d \in keyboards \ plugged
    /\ d \notin reading
    /\ plugged' = plugged \cup {d}
    /\ UNCHANGED <<listener, reading, callbacks, nkeys, wired, keyboards, term,
                   serverVars, protoVars, pttVars, clientVars>>

\* EvdevHotkeyListener.stop: the read tasks are cancelled
ListenerStop ==
    /\ listener.running
    /\ listener' = stop(listener)
    /\ UNCHANGED <<plugged, reading, callbacks, nkeys, wired, keyboards, term,
                   serverVars, protoVars, pttVars, clientVars>>

\* a cancelled read task ends
ReadCancelled(d) ==
    /\ ~listener.running /\ d \in reading
    /\ reading' = reading \ {d}
    /\ Listener(on_device_disconnected(listener, d))
    /\ UNCHANGED <<plugged, nkeys>>

\* a listener on its own, with the keyboards that are there when it starts
EvdevInit ==
    /\ ServerInit /\ max_connections = MaxPermits /\ reject_when_full
    /\ ProtocolIdle /\ ControllerInit /\ ClientIdle
    /\ daemon_mode = FALSE /\ mode = NewMode("none")
    /\ listener = NewListener
    /\ keyboards = Devices
    /\ plugged \in SUBSET keyboards
    /\ reading = {}
    /\ callbacks = <<>>
    /\ nkeys = 0
    /\ wired = FALSE
    /\ term = NewTerminal

EvdevNext ==
    \/ ListenerStart
    \/ DeviceScan
    \/ \E d \in Devices, code \in KeyCodes, value \in 0..2 : KeyEvent(d, code, value)
    \/ \E d \in Devices : Disconnect(d)
    \/ \E d \in Devices : Plug(d)
    \/ ListenerStop
    \/ \E d \in Devices : ReadCancelled(d)

EvdevSpec == EvdevInit /\ [][EvdevNext]_vars

\* run_ptt_mode --tray with the evdev listener and one keyboard
KvmInit ==
    /\ ServerInit /\ max_connections = MaxPermits /\ reject_when_full
    /\ ProtocolIdle /\ ControllerInit /\ ClientIdle
    /\ daemon_mode \in BOOLEAN /\ mode = NewMode("DISCONNECTED")
    /\ listener = NewListener
    /\ keyboards = {FirstDevice}
    /\ plugged \in SUBSET keyboards
    /\ reading = {}
    /\ callbacks = <<>>
    /\ nkeys = 0
    /\ wired = TRUE
    /\ term = NewTerminal

KvmNext ==
    \/ ListenerStart
    \/ DeviceScan
    \/ \E code \in HotkeyCodes, value \in 0..1 : KeyEvent(FirstDevice, code, value)
    \/ Disconnect(FirstDevice)
    \/ Plug(FirstDevice)
    \/ MonitorDuration
    \/ StateWatchdog
    \/ AudioCallback
    \/ \E k \in 1..MaxRecordings : StartRecordingBegin(k)
    \/ \E k \in 1..MaxRecordings : StartRecording(k)
    \/ \E k \in 1..MaxRecordings : StartRecordingNotConnected(k)
    \/ \E k \in 1..MaxRecordings, outcome \in {"timeout", "full"} : ConnectFails(k, outcome)
    \/ ConnectionLost
    \/ \E j \in 1..MaxRecordings : WaitAndStopBegin(j)
    \/ \E j \in 1..MaxRecordings : WaitAndStop(j)

KvmSpec == KvmInit /\ [][KvmNext]_vars

\* TerminalHotkeyListener.start: it reads the terminal character by
\* character; the hotkey character activates, and the key counts as held
\* while its repeats keep coming.  A callback may raise.
\* the finally of start(): once the loop is left, by its end or by an
\* exception, the saved attributes are set
leave(t) == IF t.pc \in {"ended", "raised"} THEN [t EXCEPT !.raw = FALSE] ELSE t

\* TerminalHotkeyListener.print_normal: a plain print while no attributes
\* are saved; otherwise the saved attributes are set, the line printed and
\* raw mode entered
print_normal(t) == IF ~t.old_settings THEN t ELSE [t EXCEPT !.raw = TRUE]

\* start() waiting for a key: one character read
TerminalRead(ch, raises) ==
    /\ term.pc = "waiting"
    /\ nkeys < MaxKeyEvents
    /\ nkeys' = nkeys + 1
    /\ IF ~term.running \/ ch = "q"
       THEN /\ term' = leave([term EXCEPT !.pc = "ended"])
            /\ UNCHANGED callbacks
       ELSE IF ch = "hotkey"
       THEN /\ callbacks' = Append(callbacks, Activated)
            /\ term' = leave([term EXCEPT !.pc = IF raises THEN "raised" ELSE "held"])
       ELSE UNCHANGED <<term, callbacks>>
    /\ UNCHANGED <<listener, plugged, reading, wired, keyboards,
                   serverVars, protoVars, pttVars, clientVars>>

\* start() while the key is held: a repeat of the hotkey keeps it held;
\* another character, a timeout or stop() ends the hold, on_deactivate is
\* called and the rest of the input drained
TerminalHeld(repeat, raises) ==
    /\ term.pc = "held"
    /\ nkeys < MaxKeyEvents
    /\ nkeys' = nkeys + 1
    /\ IF repeat /\ term.running
       THEN UNCHANGED <<term, callbacks>>
       ELSE /\ callbacks' = Append(callbacks, Deactivated)
            /\ term' = leave([term EXCEPT !.pc = IF raises THEN "raised"
                                                ELSE IF term.running THEN "waiting"
                                                ELSE "ended"])
    /\ UNCHANGED <<listener, plugged, reading, wired, keyboards,
                   serverVars, protoVars, pttVars, clientVars>>

\* TerminalHotkeyListener.start, to its first read
TerminalStart ==
    /\ term.pc = "idle" /\ ~listener.running
    /\ term' = [pc |-> "waiting", running |-> TRUE, old_settings |-> TRUE, raw |-> TRUE]
    /\ UNCHANGED <<listener, plugged, reading, callbacks, nkeys, wired, keyboards,
                   serverVars, protoVars, pttVars, clientVars>>

\* TerminalHotkeyListener.stop
TerminalStop ==
    /\ term.running
    /\ term' = [term EXCEPT !.running = FALSE]
    /\ UNCHANGED <<listener, plugged, reading, callbacks, nkeys, wired, keyboards,
                   serverVars, protoVars, pttVars, clientVars>>

\* print_fn of run_ptt_mode: a callback or a task prints a line
TerminalPrint ==
    /\ term' = print_normal(term)
    /\ term' # term
    /\ UNCHANGED <<listener, plugged, reading, callbacks, nkeys, wired, keyboards,
                   serverVars, protoVars, pttVars, clientVars>>

TerminalNext ==
    \/ TerminalStart
    \/ TerminalPrint
    \/ \E ch \in {"hotkey", "other", "q"}, raises \in BOOLEAN : TerminalRead(ch, raises)
    \/ \E repeat \in BOOLEAN, raises \in BOOLEAN : TerminalHeld(repeat, raises)
    \/ TerminalStop

\* a terminal listener on its own
TerminalSpec == Init /\ [][TerminalNext]_vars

(* ------------------- one-shot mode (client.py run_client) -------------- *)
\* chunks the capture callback delivers during one recording, at most
MaxShotChunks == 3

\* settings.client.reconnect_attempts
reconnect_attempts == 3

\* the replies a client may find when it reads after `end`
Replies == {"final", "final_empty", "error", "timeout"}

\* Python's truth value of what record_and_transcribe returns: None and ""
\* are false
Truthy(text) == text # "None" /\ text # ""

\* run_client once record_and_transcribe has returned text
run_client_result(s, text) ==
    [s EXCEPT !.pc = "done", !.text = text,
              !.output = IF Truthy(text) THEN Append(@, text) ELSE @,
              !.exit = IF Truthy(text) THEN 0 ELSE 1,
              !.websocket = FALSE, !.open = FALSE]

\* run_client: an attempt to connect; connected, it ends at once in test
\* mode, or record_and_transcribe sends the configuration, resets its
\* state and waits for Enter with the capture stream open
RunClientConnect(outcome, test) ==
    /\ shot.pc = "start"
    /\ LET s == connect(shot, outcome)
       IN  shot' =
             IF outcome # "ready"
             THEN IF s.attempt + 1 = reconnect_attempts
                  THEN [s EXCEPT !.attempt = @ + 1, !.pc = "done", !.exit = 1]
                  ELSE [s EXCEPT !.attempt = @ + 1]
             ELSE IF test
             THEN [s EXCEPT !.pc = "done", !.exit = 0, !.websocket = FALSE, !.open = FALSE]
             ELSE [s EXCEPT !.pc = "recording", !.queue = 0, !.server_error = FALSE,
                            !.stop_event = FALSE, !.recording = TRUE,
                            !.stream_task = "running"]
    /\ UNCHANGED nonShotVars

\* PTTClient._audio_callback, called while the stream is open
ShotAudioCallback ==
    /\ shot.pc \in {"recording", "flushing"}
    /\ shot.recording
    /\ shot.queue + shot.sent < MaxShotChunks
    /\ shot' = [shot EXCEPT !.queue = @ + 1]
    /\ UNCHANGED nonShotVars

\* PTTClient._stream_audio: one turn of its loop
stream_audio(s) ==
    IF ~(s.recording \/ s.queue > 0) THEN [s EXCEPT !.stream_task = "done"]
    ELSE IF s.stop_event THEN [s EXCEPT !.stream_task = "done"]
    ELSE IF s.queue > 0 /\ s.open THEN [s EXCEPT !.queue = @ - 1, !.sent = @ + 1]
    ELSE IF s.queue > 0 THEN [s EXCEPT !.stream_task = "done"]
    ELSE s

StreamAudio ==
    /\ shot.stream_task = "running"
    /\ shot' = stream_audio(shot)
    /\ shot' # shot
    /\ UNCHANGED nonShotVars

\* PTTClient._listen_for_errors reads an error message of the server; the
\* server may have closed the connection after it
ListenForErrors(closes) ==
    /\ shot.pc = "recording"
    /\ shot.recording /\ ~shot.stop_event
    /\ shot' = [shot EXCEPT !.server_error = TRUE, !.stop_event = TRUE,
                            !.recording = FALSE, !.open = ~closes]
    /\ UNCHANGED nonShotVars

\* record_and_transcribe: the user presses Enter
PressEnter ==
    /\ shot.pc = "recording"
    /\ shot' = [shot EXCEPT !.pc = "flushing", !.recording = FALSE, !.stop_event = TRUE]
    /\ UNCHANGED nonShotVars

\* record_and_transcribe once the stream task has ended: None after a server
\* error, otherwise `end` is sent
SendEnd ==
    /\ shot.pc = "flushing" /\ shot.stream_task = "done"
    /\ shot' = IF shot.server_error THEN run_client_result(shot, "None")
               ELSE [shot EXCEPT !.pc = "waiting", !.end_sent = TRUE]
    /\ UNCHANGED nonShotVars

\* record_and_transcribe reads the reply, or waits 30 s in vain, and
\* run_client ends
ReadReply(r) ==
    /\ shot.pc = "waiting"
    /\ shot' = run_client_result([shot EXCEPT !.reply = r],
                                 IF r = "final" THEN "hello"
                                 ELSE IF r = "final_empty" THEN "" ELSE "None")
    /\ UNCHANGED nonShotVars

OneShotNext ==
    \/ \E outcome \in {"ready", "timeout", "full", "refused"}, test \in BOOLEAN :
          RunClientConnect(outcome, test)
    \/ ShotAudioCallback
    \/ StreamAudio
    \/ \E closes \in BOOLEAN : ListenForErrors(closes)
    \/ PressEnter
    \/ SendEnd
    \/ \E r \in Replies : ReadReply(r)

\* one run of the one-shot client
OneShotSpec == Init /\ [][OneShotNext]_vars

(* --------------- takeover of old instances (client start) -------------- *)
\* Before PTT mode starts, the client looks for processes of its own name
\* and ends them: SIGTERM to every peer, a short wait, then for every peer
\* a probe with signal 0 and SIGKILL if the probe finds it alive.
\* old instances that may be running
NumPeers == 2

Pids == 1..(NumPeers + 2)
\* os.getpid() and os.getppid()
getpid == NumPeers + 1
getppid == NumPeers + 2

\* the processes the takeover signals, out of those pgrep found
peers_of(found) == found \ {getpid, getppid}

\* os.kill(pid, sig) as the takeover calls it: what the call comes to
\* ("ok", "ProcessLookupError", "PermissionError"); an error is caught
kill(t, pid, sig) ==
    LET result == IF pid \notin t.alive THEN "ProcessLookupError"
                  ELSE IF pid \in t.denied THEN "PermissionError"
                  ELSE "ok"
    IN  [t EXCEPT !.signals = Append(@, [pid |-> pid, sig |-> sig, result |-> result])]

\* the probe of one peer, followed by SIGKILL whatever it found
probe_and_kill(t, pid) == kill(kill(t, pid, "0"), pid, "SIGKILL")

\* the probe of one peer and what follows it
probe_then_kill(t, pid) ==
    LET p == kill(t, pid, "0")
    IN  IF Last(p.signals).result = "ok" THEN kill(p, pid, "SIGKILL") ELSE p

\* pgrep has listed the processes found; denied are those of another user
TakeoverDiscover(found, alive, denied) ==
    /\ takeover.pc = "idle"
    /\ takeover' = [takeover EXCEPT !.pc = "sigterm", !.found = found,
                                    !.todo = peers_of(found),
                                    !.alive = alive, !.denied = denied]
    /\ UNCHANGED nonTakeoverVars

\* SIGTERM to the next peer; after the last one the takeover waits
TakeoverSigterm(pid) ==
    /\ takeover.pc = "sigterm"
    /\ pid \in takeover.todo
    /\ \A q \in takeover.todo : pid <= q
    /\ LET t == kill(takeover, pid, "SIGTERM")
       IN  takeover' = [t EXCEPT !.todo = @ \ {pid}]
    /\ UNCHANGED nonTakeoverVars

\* the wait is over
TakeoverSleep ==
    /\ takeover.pc = "sigterm" /\ takeover.todo = {}
    /\ takeover' = [takeover EXCEPT !.pc = "probe", !.todo = peers_of(takeover.found)]
    /\ UNCHANGED nonTakeoverVars

\* the probe of the next peer, and SIGKILL if it is alive; after the last
\* one the client starts
TakeoverProbe(pid) ==
    /\ takeover.pc = "probe"
    /\ pid \in takeover.todo
    /\ \A q \in takeover.todo : pid <= q
    /\ LET t == probe_then_kill(takeover, pid)
       IN  takeover' = [t EXCEPT !.todo = @ \ {pid},
                                 !.pc = IF takeover.todo = {pid} THEN "started" ELSE @,
                                 !.alive = IF Last(t.signals).sig = "SIGKILL"
                                              /\ Last(t.signals).result = "ok"
                                           THEN @ \ {pid} ELSE @]
    /\ UNCHANGED nonTakeoverVars

\* no peer was left to probe
TakeoverNone ==
    /\ takeover.pc = "probe" /\ takeover.todo = {}
    /\ takeover' = [takeover EXCEPT !.pc = "started"]
    /\ UNCHANGED nonTakeoverVars

\* an old instance that was sent SIGTERM exits
PeerExits(pid) ==
    /\ takeover.pc \in {"sigterm", "probe"}
    /\ pid \in takeover.alive
    /\ \E i \in 1..Len(takeover.signals) :
          takeover.signals[i] = [pid |-> pid, sig |-> "SIGTERM", result |-> "ok"]
    /\ takeover' = [takeover EXCEPT !.alive = @ \ {pid}]
    /\ UNCHANGED nonTakeoverVars

TakeoverNext ==
    \/ \E found \in SUBSET Pids, alive \in SUBSET (1..NumPeers), denied \in SUBSET (1..NumPeers) :
          TakeoverDiscover(found, alive \cup (found \cap {getpid, getppid}), denied)
    \/ \E pid \in Pids : TakeoverSigterm(pid)
    \/ TakeoverSleep
    \/ \E pid \in Pids : TakeoverProbe(pid)
    \/ TakeoverNone
    \/ \E pid \in Pids : PeerExits(pid)

\* the start of one client
TakeoverSpec == Init /\ [][TakeoverNext]_vars

(* ------------- a PTT client and the server on one connection ----------- *)
\* recordings the client makes on its connection
MaxTalkCycles == 2
\* frames the handler takes from the client: a config, two chunks and an
\* end per recording
MaxTalkFrames == 4 * MaxTalkCycles

\* what stop_recording sends before `end`: the chunks of the recording, of
\* int16 samples
TalkChunks ==
    LET Even == {f \in BinaryFrames : f.nbytes % 2 = 0}
    IN  {<<>>} \cup {<<f>> : f \in Even} \cup {<<f, g>> : f \in Even, g \in Even}

\* ensure_connected: PTTClient.connect reads the server's first message
TalkConnect ==
    /\ talk.pc = "start"
    /\ outbox[FirstConn] # <<>> /\ outbox[FirstConn][1] = ReadyMessage
    /\ talk' = [talk EXCEPT !.pc = "idle", !.nread = 1]
    /\ UNCHANGED nonTalkVars

\* start_recording on the open connection: send_config
TalkStartRecording ==
    /\ talk.pc = "idle"
    /\ talk.cycles < MaxTalkCycles
    /\ talk' = [talk EXCEPT !.pc = "recording", !.cycles = @ + 1,
                            !.sent = Append(@, ConfigFrame(DEFAULT_SAMPLE_RATE))]
    /\ UNCHANGED nonTalkVars

\* stop_recording: nothing more without audio; otherwise the chunks and
\* `end` are sent
TalkStopRecording(chunks) ==
    /\ talk.pc = "recording"
    /\ talk' = IF chunks = <<>> THEN [talk EXCEPT !.pc = "idle"]
               ELSE [talk EXCEPT !.pc = "waiting", !.sent = @ \o chunks \o <<EndFrame>>]
    /\ UNCHANGED nonTalkVars

\* stop_recording: the one recv() returns the next message on the socket
TalkRecv ==
    /\ talk.pc = "waiting"
    /\ Len(outbox[FirstConn]) > talk.nread
    /\ talk' = [talk EXCEPT !.pc = "idle", !.nread = @ + 1]
    /\ UNCHANGED nonTalkVars

\* stop_recording: no message within 30 s, the transcription takes longer
TalkTimeout ==
    /\ talk.pc = "waiting"
    /\ Len(outbox[FirstConn]) = talk.nread
    /\ pc[FirstConn] = "transcribing"
    /\ talk' = [talk EXCEPT !.pc = "idle"]
    /\ UNCHANGED nonTalkVars

\* the handler takes the next frame the client has sent
TalkDeliver ==
    /\ nframes < Len(talk.sent)
    /\ AsyncForMessage(FirstConn, talk.sent[nframes + 1], MaxTalkFrames)

TalkNext ==
    \/ AdmitNow(FirstConn)
    \/ TalkConnect
    \/ TalkStartRecording
    \/ \E chunks \in TalkChunks : TalkStopRecording(chunks)
    \/ TalkRecv
    \/ TalkTimeout
    \/ TalkDeliver
    \/ TranscribeDone(FirstConn)

TalkSpec == Init /\ [][TalkNext]_vars

(* ============================ properties ============================== *)
Has(s, m) == \E i \in 1..Len(s) : s[i] = m
Readies(c) == {i \in 1..Len(outbox[c]) : outbox[c][i].type = "ready"}
Buffered(c) == SumSeq(session[c].audio_chunks)
\* the step sent exactly one more frame to c
SentOne(c) ==
    /\ Len(outbox'[c]) = Len(outbox[c]) + 1
    /\ SubSeq(outbox'[c], 1, Len(outbox[c])) = outbox[c]
KeepAliveFrame == [kind |-> "text", nbytes |-> 0, type |-> "keepalive", sample_rate |-> 0]
Running == {"loop", "transcribing"}

\* C1: every connection in the session table was sent exactly one "ready",
\* as the first frame; no connection is ever sent two, and a "final" or an
\* "error" other than SERVER_FULL is only sent after the "ready".
C1_ReadyOnceAndFirst ==
    \A c \in Conns :
        /\ Cardinality(Readies(c)) <= 1
        /\ c \in sessions => Readies(c) = {1}
        /\ \A i \in 1..Len(outbox[c]) :
              outbox[c][i] # ErrorMessage("SERVER_FULL") /\ outbox[c][i].type # "ready"
                  => Readies(c) = {1}

\* a session that was sent "ready" and has since been sent another frame
C1_Witness ==
    \E c \in sessions : Len(outbox[c]) >= 2 /\ Last(outbox[c]).type \in {"final", "error"}

\* C2: an "end" handled on an open connection is answered by exactly one
\* frame, a "final" or an "error": at once, or when the transcription that
\* the handler awaits is done; until then the handler takes no other frame
\* and sends nothing.
C2_OneResponsePerEnd ==
    [][\A c \in Conns :
        /\ (HandleMessage(c, EndFrame) /\ clientOpen[c]) =>
              \/ pc'[c] = "transcribing" /\ outbox'[c] = outbox[c]
              \/ pc'[c] # "transcribing" /\ SentOne(c)
                   /\ Last(outbox'[c]).type \in {"final", "error"}
        /\ (pc[c] = "transcribing" /\ pc'[c] # "transcribing") =>
              \/ pc'[c] = "loop" /\ SentOne(c)
                   /\ Last(outbox'[c]).type \in {"final", "error"}
              \/ pc'[c] = "done" /\ (~clientOpen[c] \/ shutdown)
                   /\ outbox'[c] = outbox[c]
        /\ (pc[c] = "transcribing" /\ pc'[c] = "transcribing") =>
              outbox'[c] = outbox[c] /\ session'[c] = session[c]
      ]_vars

\* an "end" with audio has been answered with the transcribed text
C2_Witness ==
    \E c \in sessions :
        /\ pc[c] = "loop"
        /\ Last(outbox[c]) = FinalMessage("hello", 1)

\* C3: a session never holds more than 480,000 samples, and a binary frame
\* that would take it past that leaves the buffer as it was; a binary frame
\* is appended whole or not at all.
C3_BufferCap ==
    /\ [](\A c \in Conns :
             /\ Buffered(c) <= 480000
             /\ session[c].total_samples = Buffered(c))
    /\ [][\A c \in Conns : \A f \in BinaryFrames :
             (HandleMessage(c, f) /\ pc'[c] = "loop") =>
                 /\ \/ session'[c] = session[c]
                    \/ /\ session'[c].audio_chunks =
                             Append(session[c].audio_chunks, f.nbytes \div 2)
                       /\ f.nbytes % 2 = 0
                 /\ Buffered(c) + (f.nbytes \div 2) > 480000
                       => session'[c] = session[c]
         ]_vars

\* a frame was turned away with BUFFER_FULL and the audio before it is kept
C3_Witness ==
    \E c \in sessions :
        /\ Last(outbox[c]) = ErrorMessage("BUFFER_FULL")
        /\ Buffered(c) > 0

\* C4: the buffered audio never lasts more than 30 s at the session's
\* sample rate.
C4_ThirtySecondsAtDeclaredRate ==
    \A c \in sessions :
        session[c].sample_rate > 0 => Buffered(c) <= 30 * session[c].sample_rate

\* C5: the audio given to Transcriber.transcribe never lasts more than 30 s
\* at the sample rate given with it.
C5_TranscriberAtMostThirtySeconds ==
    \A c \in Conns :
        pc[c] = "transcribing" => SumSeq(job[c].audio) <= 30 * job[c].sample_rate

\* C6: never more than max_connections sessions in the table, nor more
\* than max_connections permits out, in reject mode and in queue mode.
C6_AdmissionBound ==
    /\ Cardinality(sessions) <= max_connections
    /\ Cardinality({c \in Conns : pc[c] \in Running}) <= max_connections
    /\ sem_value >= 0
    /\ sem_value <= max_connections

\* all permits are out and one more connection has arrived
C6_Witness ==
    /\ Cardinality(sessions) = max_connections
    /\ \E c \in Conns : c \notin sessions /\ pc[c] # "idle"

\* C7: in reject mode, a connection that arrives while all permits are in
\* use is sent SERVER_FULL and nothing else, is closed, gets no session and
\* takes no permit; and that stays so.
C7_RejectWhenFull ==
    /\ [][\A c \in Conns :
             (pc[c] = "idle" /\ pc'[c] # "idle" /\ reject_when_full
                  /\ Cardinality(sessions) = max_connections) =>
                 /\ outbox'[c] = <<ErrorMessage("SERVER_FULL")>>
                 /\ pc'[c] = "done"
                 /\ ~clientOpen'[c]
                 /\ sessions' = sessions
                 /\ sem_value' = sem_value
         ]_vars
    /\ [](\A c \in Conns :
             Has(outbox[c], ErrorMessage("SERVER_FULL")) =>
                 /\ outbox[c] = <<ErrorMessage("SERVER_FULL")>>
                 /\ pc[c] = "done"
                 /\ c \notin sessions)

\* a connection was turned away while the table is full
C7_Witness ==
    /\ reject_when_full
    /\ Cardinality(sessions) = max_connections
    /\ \E c \in Conns : outbox[c] = <<ErrorMessage("SERVER_FULL")>>

\* C8: in queue mode, a connection that arrives while all permits are in
\* use is sent nothing and has no session while it waits; when an admitted
\* handler exits, the first waiting connection is handed the permit and is
\* then admitted and sent "ready" (unless its client has gone or the server
\* shuts down); and while a connection waits, the handlers of admitted
\* sessions can take their next frame.
C8_QueueWhenFull ==
    /\ [][\A c \in Conns :
             (pc[c] = "idle" /\ pc'[c] # "idle" /\ ~reject_when_full
                  /\ Cardinality(sessions) = max_connections) =>
                 pc'[c] = "waiting" /\ outbox'[c] = <<>>
         ]_vars
    /\ [](\A c \in Conns :
             pc[c] \in {"waiting", "granted"} =>
                 /\ outbox[c] = <<>>
                 /\ c \notin sessions
                 /\ \A d \in Conns :
                       (pc[d] = "loop" /\ nframes < MaxFrames)
                           => ENABLED HandleMessage(d, KeepAliveFrame))
    /\ [][(Cardinality(sessions') < Cardinality(sessions)
              /\ \E c \in Conns : pc[c] = "waiting") =>
             \E c \in Conns : pc[c] = "waiting" /\ pc'[c] = "granted"
         ]_vars
    /\ \A c \in Conns :
          (pc[c] = "granted") ~>
              \/ c \in sessions /\ outbox[c] = <<ReadyMessage>>
              \/ ~clientOpen[c]
              \/ shutdown

\* a connection that had to wait has been admitted and sent "ready"
C8_Witness ==
    \E c \in sessions : c \in waited /\ outbox[c] = <<ReadyMessage>>

\* C9: a handler that has left (client gone, exception, cancellation) has
\* no session in the table and holds no permit: the table holds exactly the
\* running handlers, and the permits out are those of the table plus those
\* handed to waiters that have not run yet.
C9_ExitReleases ==
    /\ sessions = {c \in Conns : pc[c] \in Running}
    /\ max_connections - sem_value =
          Cardinality(sessions) + Cardinality({c \in Conns : pc[c] = "granted"})

\* handlers have left on an exception and on cancellation, all permits are back
C9_Witness ==
    /\ \E c \in Conns : pc[c] = "done" /\ Has(outbox[c], ErrorMessage("INTERNAL"))
    /\ \E c \in Conns : pc[c] = "done" /\ outbox[c] = <<ReadyMessage>> /\ shutdown
    /\ sem_value = max_connections

\* C10: a binary frame handled on an open connection whose session is not
\* configured is answered by one NOT_CONFIGURED error; the session state
\* (buffer, sample count, configured) is as before and the session stays.
C10_BinaryBeforeConfig ==
    [][\A c \in Conns : \A f \in BinaryFrames :
          (HandleMessage(c, f) /\ ~session[c].configured /\ clientOpen[c]) =>
              /\ outbox'[c] = Append(outbox[c], ErrorMessage("NOT_CONFIGURED"))
              /\ session'[c] = session[c]
              /\ ~session'[c].configured
              /\ pc'[c] = "loop"
              /\ c \in sessions'
              /\ clientOpen'[c]
      ]_vars

\* an unconfigured session has answered a binary frame and goes on
C10_Witness ==
    \E c \in sessions :
        /\ pc[c] = "loop" /\ ~session[c].configured
        /\ session[c].audio_chunks = <<>>
        /\ Last(outbox[c]) = ErrorMessage("NOT_CONFIGURED")

(* ---------------- claims about one session (SessionSpec) --------------- *)
\* text frames that parse_client_message does not decode
Undecodable == {f \in TextFrames : f.type \in {"notjson", "notype", "bogus"}}
\* the i-th frame sent to c is m and a later one is n
SentBefore(c, m, n) ==
    \E i, j \in 1..Len(outbox[c]) : i < j /\ outbox[c][i] = m /\ outbox[c][j] = n

\* C11: a binary frame (of whole samples) handled on an open, configured
\* session that would take the buffered audio past 30 s at the session's
\* sample rate is answered by one BUFFER_FULL error, the session state is
\* as before and the handler goes on; an "end" that follows the error gives
\* the transcriber the audio buffered before the frame.
C11_BufferFullKeepsSession ==
    /\ [][\A f \in BinaryFrames :
             (/\ SessionMessage(f)
              /\ session[FirstConn].configured /\ clientOpen[FirstConn]
              /\ f.nbytes % 2 = 0
              /\ session[FirstConn].sample_rate > 0
              /\ Buffered(FirstConn) + (f.nbytes \div 2)
                     > 30 * session[FirstConn].sample_rate) =>
                 /\ outbox'[FirstConn] =
                        Append(outbox[FirstConn], ErrorMessage("BUFFER_FULL"))
                 /\ session'[FirstConn] = session[FirstConn]
                 /\ pc'[FirstConn] = "loop"
                 /\ FirstConn \in sessions'
         ]_vars
    /\ [][(/\ SessionMessage(EndFrame)
           /\ Last(outbox[FirstConn]) = ErrorMessage("BUFFER_FULL")
           /\ session[FirstConn].sample_rate > 0) =>
              /\ pc'[FirstConn] = "transcribing"
              /\ job'[FirstConn].audio = session[FirstConn].audio_chunks
         ]_vars

\* C12: a text frame that does not decode (not JSON, no type, unknown
\* type), handled on an open connection, is answered by one PARSE_ERROR
\* error; configured, sample_rate and the buffer are as before, and the
\* handler goes on to the next frame with the session in the table.
C12_ParseErrorKeepsSession ==
    [][\A f \in Undecodable :
          (SessionMessage(f) /\ clientOpen[FirstConn]) =>
              /\ outbox'[FirstConn] =
                     Append(outbox[FirstConn], ErrorMessage("PARSE_ERROR"))
              /\ session'[FirstConn] = session[FirstConn]
              /\ pc'[FirstConn] = "loop"
              /\ FirstConn \in sessions'
              /\ clientOpen'[FirstConn]
      ]_vars

\* a configured session with audio buffered has answered PARSE_ERROR
C12_Witness ==
    \E c \in sessions :
        /\ pc[c] = "loop" /\ session[c].configured
        /\ session[c].audio_chunks # <<>>
        /\ Last(outbox[c]) = ErrorMessage("PARSE_ERROR")

\* C13: when the transcriber raises, the open session is sent one
\* TRANSCRIPTION_ERROR error and goes on: in the table, configured, with
\* the sample rate it had and an empty buffer, its handler at the next
\* frame; and a later transcription on a session that has had such an
\* error can return a text like any other.
C13_TranscriptionErrorKeepsSession ==
    /\ [][(Transcribed(FirstConn, [ok |-> FALSE, text |-> ""]) /\ clientOpen[FirstConn]) =>
              /\ outbox'[FirstConn] =
                     Append(outbox[FirstConn], ErrorMessage("TRANSCRIPTION_ERROR"))
              /\ pc'[FirstConn] = "loop"
              /\ FirstConn \in sessions'
              /\ clientOpen'[FirstConn]
              /\ session'[FirstConn] =
                     [NewSession EXCEPT !.configured = TRUE,
                                        !.sample_rate = job[FirstConn].sample_rate]
         ]_vars
    /\ []((/\ pc[FirstConn] = "transcribing"
           /\ Has(outbox[FirstConn], ErrorMessage("TRANSCRIPTION_ERROR"))
           /\ ~TooLong(SumSeq(job[FirstConn].audio), job[FirstConn].sample_rate)) =>
              ENABLED Transcribed(FirstConn, [ok |-> TRUE, text |-> "hello"]))

\* after a TRANSCRIPTION_ERROR the same session has had an utterance
\* transcribed
C13_Witness ==
    /\ FirstConn \in sessions /\ pc[FirstConn] = "loop"
    /\ SentBefore(FirstConn, ErrorMessage("TRANSCRIPTION_ERROR"), FinalMessage("hello", 1))

\* C14: an "end" handled on an open session for which no binary frame was
\* taken since admission or since the last "end" is answered by "final"
\* with text "" and confidence 0, and nothing is given to the transcriber.
C14_EmptyEnd ==
    [][(SessionMessage(EndFrame) /\ utterance[FirstConn] = <<>> /\ clientOpen[FirstConn]) =>
          /\ outbox'[FirstConn] = Append(outbox[FirstConn], FinalMessage("", 0))
          /\ pc'[FirstConn] = "loop"
          /\ job'[FirstConn] = NoJob
      ]_vars

\* an "end" right after the "end" of a transcribed utterance got the empty
\* "final"
C14_Witness ==
    /\ FirstConn \in sessions /\ pc[FirstConn] = "loop"
    /\ Len(outbox[FirstConn]) = 3
    /\ outbox[FirstConn][2] = FinalMessage("hello", 1)
    /\ outbox[FirstConn][3] = FinalMessage("", 0)

\* C15: the buffer of a session holds, in order, the binary frames taken
\* since admission or since the last "end"; an "end" gives exactly these to
\* the transcriber, with the session's sample rate, and leaves the buffer
\* empty; while the transcription runs the job and the session do not
\* change, so that later frames go to the next utterance.
C15_UtteranceAudio ==
    /\ [](pc[FirstConn] \in Running =>
             session[FirstConn].audio_chunks =
                 (IF pc[FirstConn] = "loop" THEN utterance[FirstConn] ELSE <<>>))
    /\ [][SessionMessage(EndFrame) =>
             /\ pc'[FirstConn] \in Running =>
                    /\ session'[FirstConn].audio_chunks = <<>>
                    /\ session'[FirstConn].total_samples = 0
             /\ pc'[FirstConn] = "transcribing" =>
                    /\ job'[FirstConn].audio = utterance[FirstConn]
                    /\ job'[FirstConn].sample_rate = session[FirstConn].sample_rate
             /\ (utterance[FirstConn] # <<>> /\ session[FirstConn].sample_rate > 0) =>
                    pc'[FirstConn] = "transcribing"
         ]_vars
    /\ [][(pc[FirstConn] = "transcribing" /\ pc'[FirstConn] \in Running) =>
             /\ session'[FirstConn] = session[FirstConn]
             /\ pc'[FirstConn] = "transcribing" => job'[FirstConn] = job[FirstConn]
         ]_vars

\* the second utterance of a session is with the transcriber: the frame
\* taken after the first "end", and nothing of the first utterance
C15_Witness ==
    /\ pc[FirstConn] = "transcribing"
    /\ Has(outbox[FirstConn], FinalMessage("hello", 1))
    /\ job[FirstConn].audio = <<320000>>

\* C16: a keepalive leaves the session as it is and sends nothing; a config
\* sets sample_rate and configured and nothing else, and sends nothing, so
\* that a config equal to the one before leaves the session as it is.
C16_ControlMessagesKeepBuffer ==
    [][/\ SessionMessage(KeepAliveFrame) =>
             /\ session'[FirstConn] = session[FirstConn]
             /\ outbox'[FirstConn] = outbox[FirstConn]
             /\ pc'[FirstConn] = pc[FirstConn]
       /\ \A r \in SampleRates : SessionMessage(ConfigFrame(r)) =>
             /\ session'[FirstConn] = [session[FirstConn] EXCEPT
                                          !.sample_rate = r, !.configured = TRUE]
             /\ outbox'[FirstConn] = outbox[FirstConn]
             /\ pc'[FirstConn] = pc[FirstConn]
             /\ (session[FirstConn].configured /\ session[FirstConn].sample_rate = r)
                    => session'[FirstConn] = session[FirstConn]
      ]_vars

\* a session that has taken three frames, one of them audio, without any
\* reply: the other two were control messages, one after the first config
C16_Witness ==
    /\ nframes = 3
    /\ FirstConn \in sessions
    /\ outbox[FirstConn] = <<ReadyMessage>>
    /\ session[FirstConn].audio_chunks = <<160000>>

(* --------------------- claims about protocol.py ------------------------ *)
\* C17: the text of every client control message decodes to a message
\* equal to it, also with unknown fields added to the text.
C17_RoundTrip ==
    proto_pc = "parsed" => parsed_msg = Parsed(sent_msg)

\* a config with a negative sample_rate and a quote in its language has
\* been decoded from a text with an unknown field before "type"
C17_Witness ==
    /\ proto_pc = "parsed"
    /\ sent_msg = ConfigMessage(-1, <<"\"">>)
    /\ Len(wire) = 4 /\ wire[1].key \in UnknownKeys
    /\ parsed_msg.ok

(* ------------------------ claims about ptt.py -------------------------- *)
\* the transitions of the cycle IDLE -> RECORDING -> PROCESSING -> IDLE
Cycle == {<<"IDLE", "RECORDING">>, <<"RECORDING", "PROCESSING">>, <<"PROCESSING", "IDLE">>}

\* C18: whoever writes PTTController.state (the hotkey callbacks, the
\* duration task, the watchdog, on_processing_complete, the recording
\* callbacks of the client), the state changes only along the cycle.
C18_StateCycle ==
    [][ptt'.state # ptt.state => <<ptt.state, ptt'.state>> \in Cycle]_vars

\* C19: a press delivered while the state is not IDLE, and a release
\* delivered while the state is not RECORDING, leave the controller as it
\* is and call neither callback (no task of the client is made).
C19_IgnoredHotkeyEvents ==
    [][/\ (HotkeyActivate /\ ptt.state # "IDLE") =>
              /\ ptt' = ptt /\ calls' = calls
              /\ start_tasks' = start_tasks /\ stop_tasks' = stop_tasks
       /\ (HotkeyDeactivate /\ ptt.state # "RECORDING") =>
              /\ ptt' = ptt /\ calls' = calls
              /\ start_tasks' = start_tasks /\ stop_tasks' = stop_tasks
      ]_vars

\* of two presses and two releases only the first recording was started
\* and stopped: the second press, and a release, were ignored
C19_Witness ==
    /\ events = <<"press", "release", "press", "release">>
    /\ calls = <<"start", "stop">>
    /\ ptt.state = "PROCESSING"

\* C20: in the calls of the recording callbacks, every on_stop_recording
\* comes right after an on_start_recording: never first, never two in a
\* row.
C20_StopFollowsStart ==
    \A i \in 1..Len(calls) :
        calls[i] = "stop" => (i > 1 /\ calls[i - 1] = "start")

\* a recording was submitted by the duration task, and the release that
\* came after it called nothing
C20_Witness ==
    /\ events = <<"press", "release">>
    /\ calls = <<"start", "stop">>
    /\ ptt.state = "PROCESSING" /\ ptt.auto_submitted

\* C21: when the duration task wakes in RECORDING it sets _auto_submitted
\* and goes to PROCESSING, calling on_stop_recording once (one
\* wait_and_stop task is made); a release delivered while _auto_submitted
\* is set calls nothing and leaves the state as it is.
C21_AutoSubmit ==
    [][/\ (MonitorDuration /\ ptt.state = "RECORDING") =>
              /\ ptt'.auto_submitted
              /\ ptt'.state = "PROCESSING"
              /\ calls' = Append(calls, "stop")
              /\ Len(stop_tasks') = Len(stop_tasks) + 1
       /\ (HotkeyDeactivate /\ ptt.auto_submitted) =>
              /\ ptt'.state = ptt.state
              /\ calls' = calls
              /\ stop_tasks' = stop_tasks
      ]_vars

\* a recording was submitted by the duration task and processed to the
\* end, and the release of the key was delivered
C21_Witness ==
    /\ events = <<"press", "release">>
    /\ calls = <<"start", "stop">>
    /\ ptt.auto_submitted /\ ptt.state = "IDLE"
    /\ stop_tasks = <<>>

\* C22: a round of the watchdog that finds PROCESSING timed out leaves
\* IDLE and the timer at 0; and with a watchdog that keeps coming round,
\* PROCESSING always gives way to IDLE, whether or not
\* on_processing_complete is ever called.
C22_WatchdogRecovers ==
    /\ [][StateWatchdog => (ptt'.state = "IDLE" /\ ptt'.processing_start_time = 0)]_vars
    /\ (ptt.state = "PROCESSING") ~> (ptt.state = "IDLE")

\* the controller is back in IDLE while the start_recording task is still
\* connecting and the wait_and_stop task has not ended: nobody but the
\* watchdog has reset it
C22_Witness ==
    /\ calls = <<"start", "stop">>
    /\ start_tasks = <<"pending">>
    /\ Len(stop_tasks) = 1
    /\ ptt.state = "IDLE" /\ ptt.processing_start_time = 0

(* ------------------ claims about run_ptt_mode (client.py) -------------- *)
\* C28: whenever a wait_and_stop task runs stop_recording, the
\* start_recording task of its own cycle is done.
C28_StopAfterStart ==
    [][\A j \in 1..Len(stop_tasks) :
          StopRecording(j) => start_tasks[stop_tasks[j].cycle] = "done"
      ]_vars

\* C29: a start_recording whose ensure_connected returns False leaves the
\* controller in IDLE and sends no config, opens no capture stream and
\* leaves the accumulator as it is.
C29_NotConnected ==
    [][\A k \in 1..Len(start_tasks) : StartRecordingNotConnected(k) =>
          /\ ptt'.state = "IDLE"
          /\ mode'.configs = mode.configs
          /\ mode'.stream = mode.stream
          /\ mode'.audio_chunks = mode.audio_chunks
      ]_vars

\* the second recording went from RECORDING to IDLE without a stop (its
\* start_recording did not connect) while the accumulator held the audio
\* of the first, whose start_recording had connected
C29_Witness ==
    /\ calls = <<"start", "stop", "start">>
    /\ start_tasks = <<"done", "done">>
    /\ ptt.state = "IDLE"
    /\ mode.configs = 1 /\ mode.stream = "open" /\ mode.audio_chunks = 1
(* ------------- claims about the hotkey listeners (ptt.py) ------------- *)

\* C23: for the evdev listener, over any presses, releases and repeats on
\* any keyboards, the calls of on_activate and on_deactivate alternate
\* strictly and start with on_activate; a key event calls on_activate
\* exactly once if it takes the union of the pressed keys from not holding
\* all hotkey codes to holding them, on_deactivate exactly once if it takes
\* it back, and nothing otherwise (a repeat, a further press while active).
C23_Alternation ==
    /\ [](LET fired == SelectSeq(callbacks,
                                 LAMBDA c : c.callback # "on_device_count_changed")
          IN  \A i \in 1..Len(fired) :
                  fired[i] = IF i % 2 = 1 THEN Activated ELSE Deactivated)
    /\ [][(\E d \in Devices, code \in KeyCodes, value \in 0..2 : KeyEvent(d, code, value))
          => callbacks' = callbacks \o
                 (IF ~(HotkeyCodes \subseteq get_all_pressed_keys(listener))
                     /\ HotkeyCodes \subseteq get_all_pressed_keys(listener')
                  THEN <<Activated>>
                  ELSE IF HotkeyCodes \subseteq get_all_pressed_keys(listener)
                          /\ ~(HotkeyCodes \subseteq get_all_pressed_keys(listener'))
                  THEN <<Deactivated>>
                  ELSE <<>>)]_vars

\* the hotkey, held across two keyboards, has been activated, released and
\* activated again
C23_Witness ==
    /\ callbacks = <<Counted(2), Activated, Deactivated, Activated>>
    /\ listener.pressed_keys_by_device = (1 :> {"LEFTCTRL"}) @@ (2 :> {"LEFTMETA"})
    /\ listener.hotkey_active

\* C25: after any disconnect of a keyboard (its read loop ended by an I/O
\* error, by cancellation or by stop), the map of pressed keys has no entry
\* for its path, and the union that decides the hotkey is that of the
\* other keyboards' keys; the map only has entries of keyboards that are
\* being read.
C25_NoStaleKeys ==
    /\ [](DOMAIN listener.pressed_keys_by_device \subseteq reading)
    /\ [][\A d \in Devices :
            Disconnect(d) \/ ReadCancelled(d)
            => /\ d \notin DOMAIN listener'.pressed_keys_by_device
               /\ get_all_pressed_keys(listener') =
                    UNION {listener.pressed_keys_by_device[e] :
                             e \in (DOMAIN listener.pressed_keys_by_device) \ {d}}]_vars

\* of two keyboards that held the hotkey together, the one holding
\* LEFTMETA has disconnected
C25_Witness ==
    /\ callbacks = <<Counted(2), Activated, Deactivated, Counted(1)>>
    /\ nkeys = 3
    /\ reading = {2}
    /\ listener.pressed_keys_by_device = (2 :> {"LEFTCTRL"})

\* C26: a disconnect while the hotkey is active that leaves the other
\* keyboards' keys short of the hotkey calls on_deactivate exactly once and
\* then the device-count callback; a disconnect while the hotkey is not
\* active, or one that leaves the hotkey held, calls the device-count
\* callback only.
C26_DeactivateThenCount ==
    [][\A d \in Devices :
         Disconnect(d) \/ ReadCancelled(d)
         => callbacks' = callbacks
              \o (IF /\ listener.hotkey_active
                     /\ ~(HotkeyCodes \subseteq
                            UNION {listener.pressed_keys_by_device[e] :
                                     e \in (DOMAIN listener.pressed_keys_by_device) \ {d}})
                  THEN <<Deactivated>> ELSE <<>>)
              \o <<Counted(Cardinality(listener.device_tasks \ {d}))>>]_vars

\* the only keyboard has disconnected with the hotkey held
C26_Witness ==
    /\ callbacks = <<Counted(1), Activated, Deactivated, Counted(0)>>
    /\ nkeys = 3
    /\ listener.running /\ ~listener.hotkey_active
    /\ reading = {}

\* C24: an exception raised inside on_activate or on_deactivate does not
\* terminate a hotkey listener, the evdev one or the terminal one: start()
\* is never ended by it.
C24_CallbackExceptionKeepsListener == term.pc # "raised"

\* C27: with the tray enabled, when the only keyboard's read loop errors
\* while the hotkey is held and a recording is in progress, then, once the
\* synthesized on_deactivate, the stop-recording task it scheduled and the
\* device-count callback with 0 have all run, the tray state is DEGRADED
\* for as long as no keyboard is counted.
C27_DegradedAfterDisconnect ==
    (/\ wired /\ listener.running /\ listener.device_tasks = {}
     /\ Len(callbacks) >= 2
     /\ callbacks[Len(callbacks) - 1] = Deactivated
     /\ callbacks[Len(callbacks)] = Counted(0)
     /\ Len(calls) >= 1 /\ calls[Len(calls)] = "stop" /\ ~ptt.auto_submitted
     /\ stop_tasks = <<>>
     /\ \A k \in 1..Len(start_tasks) : start_tasks[k] = "done")
    => mode.tray = "DEGRADED"

\* C30: the tray state changes only so: to READY by a successful connect,
\* by processing-complete from RECORDING, or by a device count above zero
\* while DEGRADED; to DEGRADED from READY by a device count of zero; to
\* RECORDING by the recording an activation started; and never to
\* DISCONNECTED, the state from startup until the first successful connect.
C30_TrayTransitions ==
    [][mode'.tray # mode.tray =>
         \/ /\ mode'.tray = "READY"
            /\ \/ \E k \in 1..Len(start_tasks) : StartRecording(k)
               \/ /\ mode.tray = "RECORDING"
                  /\ \E j \in 1..Len(stop_tasks) : StopRecording(j)
               \/ /\ mode.tray = "DEGRADED"
                  /\ Len(callbacks') > Len(callbacks)
                  /\ callbacks'[Len(callbacks')].callback = "on_device_count_changed"
                  /\ callbacks'[Len(callbacks')].count > 0
         \/ /\ mode'.tray = "DEGRADED"
            /\ mode.tray = "READY"
            /\ Len(callbacks') > Len(callbacks)
            /\ callbacks'[Len(callbacks')] = Counted(0)
         \/ /\ mode'.tray = "RECORDING"
            /\ \E k \in 1..Len(start_tasks) : StartRecordingBegin(k)]_vars

(* ---------------- further claims about the server session -------------- *)

\* C39: no frame a client sends ends its session: an admitted handler
\* leaves its loop only when the client has closed the connection or the
\* server shuts down.
C39_FramesKeepSession ==
    [][(pc[FirstConn] \in {"loop", "transcribing"} /\ pc'[FirstConn] = "done")
       => (~clientOpen[FirstConn] \/ shutdown)]_vars

\* C40: once a binary frame of an utterance has been answered BUFFER_FULL
\* (no reply to an "end" has followed it), no later binary frame of that
\* utterance is appended to the session buffer, whatever its size.
C40_NoGapAfterBufferFull ==
    [][\A f \in BinaryFrames :
         (/\ SessionMessage(f)
          /\ \E i \in 1..Len(outbox[FirstConn]) :
               /\ outbox[FirstConn][i] = ErrorMessage("BUFFER_FULL")
               /\ \A j \in (i + 1)..Len(outbox[FirstConn]) :
                    /\ outbox[FirstConn][j].type # "final"
                    /\ outbox[FirstConn][j].code # "TRANSCRIPTION_ERROR")
         => Len(session'[FirstConn].audio_chunks) <= Len(session[FirstConn].audio_chunks)]_vars

(* --------------- further claims about run_ptt_mode (client.py) --------- *)

\* C35: ensure_connected returns True only with a websocket on which
\* "ready" was received and whose connection is open.
C35_ConnectedMeansReady ==
    [][\A k \in 1..Len(start_tasks) :
          (StartRecordingBegin(k) /\ start_tasks'[k] = "done") \/ StartRecording(k)
          => mode'.websocket /\ mode'.ready /\ mode'.open]_vars

\* C36: at most one start_recording task is waiting for its connection and
\* at most one capture stream is open at any time, and the stream a
\* stop_recording closes is the one its own recording opened.
C36_OneRecordingAtATime ==
    /\ [](/\ Cardinality({k \in 1..Len(start_tasks) : start_tasks[k] = "pending"}) <= 1
          /\ Cardinality(mode.open_streams) <= 1)
    /\ [][\A j \in 1..Len(stop_tasks) :
            StopRecording(j) /\ mode.stream = "open"
            => mode.stream_cycle = stop_tasks[j].cycle]_vars

\* C37: the chunks stop_recording sends for a recording were captured
\* during it; in particular it never sends again chunks that the
\* stop_recording of an earlier recording has sent.
C37_NoChunkSentTwice ==
    [][\A j \in 1..Len(stop_tasks) :
          StopRecording(j) /\ mode.websocket /\ mode.open /\ mode.audio_chunks > 0
          => mode.sent_chunks = 0]_vars

(* ----------------------- claims about one-shot mode -------------------- *)

\* C38: when the recording stopped without a server error, every chunk the
\* capture callback queued has been sent by the time `end` is sent.
C38_QueueDrainedBeforeEnd ==
    shot.end_sent /\ ~shot.server_error => shot.queue = 0

\* C31: a `final` with empty text in answer to `end` ends one-shot mode with
\* exit status 0, and nothing is dispatched as output.
C31_EmptyTextIsSuccess ==
    shot.pc = "done" /\ shot.reply = "final_empty"
    => shot.exit = 0 /\ shot.output = <<>>

(* --------------------- claims about the terminal ----------------------- *)

\* C33: once start() has exited the terminal has the attributes saved before
\* raw mode was entered and keeps them, and print_normal leaves the
\* terminal in the mode it found.
C33_AttributesRestored ==
    /\ [](term.pc \in {"ended", "raised"} => ~term.raw)
    /\ [][TerminalPrint => term'.raw = term.raw]_vars

(* ----------------------- claims about the takeover --------------------- *)

\* C32: the takeover signals only processes other than the client and its
\* parent; a peer is probed with signal 0 only after it was sent SIGTERM,
\* and is sent SIGKILL only right after a probe that found it alive; a
\* PermissionError does not stop the takeover before the client starts.
C32_TakeoverOrder ==
    /\ \A i \in 1..Len(takeover.signals) :
          /\ takeover.signals[i].pid \notin {getpid, getppid}
          /\ takeover.signals[i].sig = "0"
             => \E j \in 1..(i - 1) :
                   /\ takeover.signals[j].pid = takeover.signals[i].pid
                   /\ takeover.signals[j].sig = "SIGTERM"
          /\ takeover.signals[i].sig = "SIGKILL"
             => /\ i > 1
                /\ takeover.signals[i - 1] =
                      [pid |-> takeover.signals[i].pid, sig |-> "0", result |-> "ok"]
    /\ (takeover.pc = "started"
        => \A p \in peers_of(takeover.found) :
              \E i \in 1..Len(takeover.signals) :
                 takeover.signals[i].pid = p /\ takeover.signals[i].sig = "0")

\* a client started with its parent among the processes found, after one
\* old instance was killed and another could not be signalled
C32_Witness ==
    /\ takeover.pc = "started"
    /\ getppid \in takeover.found /\ getpid \in takeover.found
    /\ \E i \in 1..Len(takeover.signals) :
          takeover.signals[i].sig = "SIGKILL" /\ takeover.signals[i].result = "ok"
    /\ \E i \in 1..Len(takeover.signals) :
          takeover.signals[i].result = "PermissionError"

(* ---------------- claims about the client's exchange ------------------- *)

\* C34: the one reply stop_recording reads after `end` is the server's
\* answer to that `end`: the handler has taken every frame sent, its
\* transcription is over, and the message read is the last one sent.
C34_ReplyAnswersEnd ==
    [][TalkRecv => /\ nframes = Len(talk.sent)
                   /\ pc[FirstConn] = "loop"
                   /\ talk.nread + 1 = Len(outbox[FirstConn])]_vars

====
